---- MODULE Spec2Model ----
(***************************************************************************)
(* A model of aiocasambi: the Controller (session establishment, wire-id   *)
(* allocation, signal routing) and the WSClient realtime connection        *)
(* (state machine, connection loop task, outbound send).                   *)
(*                                                                         *)
(* The specifications share the variables:                                 *)
(*   SpecSession     Controller.create_session and the two login requests  *)
(*   Spec            one WSClient and its loop tasks (start, stop, send,   *)
(*                   connect, receive, exceptions)                         *)
(*   SpecRoute       two networks: start_websocket's wire ids and the      *)
(*                   dispatch of inbound frames to the unit collections    *)
(*   SpecInitialize  Controller.initialize: the network listing and the    *)
(*                   state snapshot of each network                        *)
(*   SpecKeep        two started connections: ws_send_message, the         *)
(*                   keep-alive pass of ws_ping and the reconnect it calls *)
(*   SpecReconnect   check_connection and the reconnect loop around        *)
(*                   create_session                                        *)
(*   SpecUnit        one Unit: the value, state and distribution setters,  *)
(*                   set_unit_value and set_unit_distribution              *)
(*   SpecColor       set_unit_color_temperature over the advertised ranges *)
(*   SpecRegistry    the Units collection of one network: state snapshots  *)
(*                   and unitChanged frames                                *)
(*   SpecPeer        two networks: message_handler with peerChanged and    *)
(*                   unitChanged frames                                    *)
(*   SpecRequest     Controller.request and the error table of errors.py   *)
(*   SpecOps         the operations before and after create_session:       *)
(*                   get_network_state, get_unit_state, initialize         *)
(*   SpecControls    init_unit_state_controls over the units of a network  *)
(*   SpecRetry       the connection loop retrying under fair scheduling    *)
(*   SpecChain       request, ws_ping, reconnect and create_session        *)
(*                   calling one another, under fair scheduling            *)
(*   SpecRestart     start_websocket called again for a network            *)
(*   SpecGetter      one Unit built with any controls: setters and getters *)
(***************************************************************************)
EXTENDS Integers, Sequences, FiniteSets, TLC

\* ------------------------------------------------------------------ consts.py
SIGNAL_DATA == "data"
SIGNAL_CONNECTION_STATE == "state"
STATE_DISCONNECTED == "disconnected"
STATE_RUNNING == "running"
STATE_STARTING == "starting"
STATE_STOPPED == "stopped"
MAX_NETWORK_IDS == 100
MAX_RETRIES == 10

\* ------------------------------------------------------------------ bounds
\* random.randint(1, MAX_NETWORK_IDS) draws from 1..WireIdBound in the model
WireIdBound == 3
\* loop tasks one WSClient may have scheduled at the same time
MaxTasks == 2
\* the clock reads 0, TickSeconds, ... MaxTicks * TickSeconds
MaxTicks == 2
\* a dimmer level x of the model is the value x / LevelSteps: LevelSteps is 1.0
LevelSteps == 2
\* colour temperatures run from 0 to MaxCctSteps * CCT_STEP Kelvin
MaxCctSteps == 3

Min(a, b) == IF a <= b THEN a ELSE b
Levels == -1 .. LevelSteps + 1
Networks == {"A", "B"}
WireIds == 1 .. Min(WireIdBound, MAX_NETWORK_IDS)
TaskIds == 1 .. MaxTasks

None == "None"

\* ------------------------------------------------------------------ state
VARIABLES
    user_password,      \* Controller.user_password is truthy
    network_password,   \* Controller.network_password is truthy
    header_session,     \* Controller.headers["X-Casambi-Session"]
    network_ids,        \* Controller._network_ids
    session_ids,        \* Controller._session_ids (None = no entry)
    cs,                 \* the create_session() call: position, loop index, history
    websocket,          \* Controller.websocket: network -> WSClient (made = FALSE: no entry)
    wire_map,           \* Controller._wire_id_to_network_id (None = no entry)
    tasks,              \* position of each scheduled WSClient.running() task
    units,              \* Controller.units: network -> Units (made = FALSE: no entry)
    callback,           \* Controller.callback is not None
    wires,              \* the wire id given to Units / Scenes by set_wire_id
    last,               \* what the latest step did: signals, callback calls, result
    reconnecting,       \* Controller._reconnecting
    last_websocket_ping,\* Controller._last_websocket_ping (seconds)
    now,                \* time.time() (seconds)
    rc,                 \* the reconnect() call that is inside its loop
    call,               \* the ws_send_message() call in progress
    ini,                \* the initialize() call
    gus,                \* the get_unit_state() call
    iuc,                \* the init_unit_state_controls() call
    unit,               \* one Unit object (unit.py) of network "A"
    registry            \* one Units collection (units.py): its unit map

vars == <<user_password, network_password, header_session, network_ids, session_ids, cs,
          websocket, wire_map, tasks, units, callback, wires, last,
          reconnecting, last_websocket_ping, now, rc, call, ini, gus, iuc, unit, registry>>

sessionVars == <<user_password, network_password, header_session, network_ids,
                 session_ids, cs>>
wsVars == <<websocket, wire_map, tasks, units, callback, wires, last>>
ctlVars == <<reconnecting, now, rc, call, ini, gus, iuc, unit, registry>>

\* ------------------------------------------------------------------ REST answers
\* POST /users/session: one umbrella sessionId; a network may carry its own
UmbrellaSession == "u"
UserNetSession == [n \in Networks |-> "u" \o n]
\* POST /networks/session: one sessionId per network
NetSession == [n \in Networks |-> "n" \o n]
SessionIds == {UmbrellaSession} \cup {UserNetSession[n] : n \in Networks}
                \cup {NetSession[n] : n \in Networks}

\* what Controller.request can end with inside a login
LoginOutcomes == {"ok", "TimeoutError", "Unauthorized", "QoutaLimitsExceeded",
                  "ClientConnectorError"}

\* ------------------------------------------------------------------ frames, units
\* dimmer levels in hundredths (0.0 and 1.0)
DimValues == {0, 100}
UnitIds == {1, 2}

\* WSClient._data before any frame arrived (Python None)
NoFrame == [method |-> None, id |-> 0, value |-> 0, online |-> FALSE]
\* {"method": "unitChanged", "id": i, "online": o, "controls": [{"type": "Dimmer", "value": v}]}
UnitChanged(i, v, o) == [method |-> "unitChanged", id |-> i, value |-> v, online |-> o]
\* {"method": "peerChanged", "online": o}
PeerChanged(o) == [method |-> "peerChanged", id |-> 0, value |-> 0, online |-> o]

\* Units.__process_units: a Unit of the static listing (value 0, online True)
NoUnit == [known |-> FALSE, value |-> 0, online |-> FALSE]
ListedUnit == [known |-> TRUE, value |-> 0, online |-> TRUE]
NoUnits == [made |-> FALSE, online |-> FALSE, units |-> [u \in UnitIds |-> NoUnit]]
ListedUnits == [made |-> TRUE, online |-> TRUE, units |-> [u \in UnitIds |-> ListedUnit]]

\* Units.process_unit_event on the collection U: the collection afterwards and
\* the keys of the returned change-set (a frame without "id" returns None)
ProcessUnitEvent(U, msg) ==
    IF msg.id = 0
    THEN [units |-> U, changes |-> {}]
    ELSE IF msg.method = "unitChanged"
    THEN [units |-> [U EXCEPT !.units[msg.id] =
                        [known |-> TRUE, value |-> msg.value, online |-> msg.online]],
          changes |-> {msg.id}]
    ELSE [units |-> U, changes |-> {}]

\* Units.handle_peer_changed: the online setter cascades to every unit and the
\* change-set is the whole unit map
HandlePeerChangedFlagOnly(U, msg) ==
    [units |-> [U EXCEPT !.online = msg.online],
     changes |-> {u \in UnitIds : U.units[u].known}]
HandlePeerChanged(U, msg) ==
    [units |-> [U EXCEPT !.online = msg.online,
                         !.units = [u \in UnitIds |->
                                      IF U.units[u].known
                                      THEN [U.units[u] EXCEPT !.online = msg.online]
                                      ELSE U.units[u]]],
     changes |-> {u \in UnitIds : U.units[u].known}]

\* Controller.message_handler(message, wire_id): the network is looked up by wire
\* id; a message that is None raises TypeError ("method" in None)
MessageHandler(um, un, message, wire_id) ==
    LET network_id == um[wire_id] IN
    IF message = NoFrame
    THEN [units |-> un, changes |-> {}, raised |-> "TypeError", to |-> network_id]
    ELSE LET r == IF message.method = "unitChanged"
                  THEN ProcessUnitEvent(un[network_id], message)
                  ELSE IF message.method = "peerChanged"
                  THEN HandlePeerChanged(un[network_id], message)
                  ELSE [units |-> un[network_id], changes |-> {}]
         IN [units |-> [un EXCEPT ![network_id] = r.units],
             changes |-> {<<network_id, u>> : u \in r.changes},
             raised |-> None, to |-> network_id]

\* one call of the external callback
StateCall(s) == [signal |-> SIGNAL_CONNECTION_STATE, state |-> s, changes |-> {}]
DataCall(c) == [signal |-> SIGNAL_DATA, state |-> None, changes |-> c]

\* Controller.session_handler(SIGNAL_DATA, wire_id) with the connection table ws:
\* the payload dispatched is the data of the connection the wire id maps to
SessionHandlerData(ws, um, un, wire_id) ==
    LET network_id == um[wire_id]
        m == MessageHandler(um, un, ws[network_id].data, wire_id)
    IN [units |-> m.units, raised |-> m.raised, to |-> m.to,
        used |-> ws[network_id].data,
        cb |-> IF m.changes # {} /\ callback THEN <<DataCall(m.changes)>> ELSE << >>]

\* Controller.session_handler(SIGNAL_CONNECTION_STATE, wire_id): the callback gets
\* the state of the connection the wire id maps to
SessionHandlerState(ws, um, wire_id) ==
    IF callback THEN <<StateCall(ws[um[wire_id]].state)>> ELSE << >>

\* ------------------------------------------------------------------ WSClient
NoConn == [made |-> FALSE, wire_id |-> 0, state |-> None, session_id |-> None,
           data |-> NoFrame, web_sock |-> FALSE]
\* WSClient.__init__
NewClient(wire_id, session_id) ==
    [made |-> TRUE, wire_id |-> wire_id, state |-> STATE_DISCONNECTED,
     session_id |-> session_id, data |-> NoFrame, web_sock |-> FALSE]

\* a signal a WSClient hands to session_handler_callback
Signal(signal, wire_id) == [signal |-> signal, wire |-> wire_id]

NoLast == [op |-> "init", net |-> None, outcome |-> None, was |-> None,
           sig |-> << >>, cb |-> << >>, ret |-> None, spawned |-> FALSE,
           rx |-> NoFrame, used |-> NoFrame, to |-> None, open_session |-> None,
           sent |-> << >>, recon |-> 0, due |-> FALSE, flag |-> FALSE, start |-> 0,
           arg |-> 0, frame |-> 0, changes |-> {}, peers |-> {},
           msg |-> [method |-> None, id |-> 0, online |-> "absent", name |-> "",
                    controls |-> << >>],
           timer |-> 0]

NoTasks == [n \in Networks |-> [t \in TaskIds |-> "none"]]
FreeSlots(n) == {t \in TaskIds : tasks[n][t] = "none"}
FirstFree(n) == CHOOSE t \in FreeSlots(n) : \A x \in FreeSlots(n) : t <= x
\* loop.create_task(self.running())
Spawn(n) == [tasks EXCEPT ![n][FirstFree(n)] = "connect"]
Alive(n) == {t \in TaskIds : tasks[n][t] # "none"}

\* the exceptions WSClient.running names, and every other Exception
LoopExceptions == {"ConnectionResetError", "ConnectionError", "ClientConnectorError",
                   "WSServerHandshakeError", "Exception"}
ConnectExceptions == {"ClientConnectorError", "WSServerHandshakeError", "Exception"}
OpenExceptions == {"ConnectionResetError"}
ReceiveExceptions == {"ConnectionError", "Exception"}
SendOutcomes == {"ok", "ConnectionError", "AttributeError"}

\* start_websocket's wire id: drawn once (r1) and, while it is not a key of the
\* reverse map, drawn again (r2) and entered in the map
AllocateWireId(um, network_id, r1, r2) ==
    IF um[r1] = None
    THEN [wire_id |-> r2, map |-> [um EXCEPT ![r2] = network_id]]
    ELSE [wire_id |-> r1, map |-> um]

\* WSClient.start: unless running, the state becomes starting and a loop task
\* is scheduled
StartsLoopAlways(c) == TRUE
StartsLoop(c) == c.state # STATE_RUNNING

\* an except clause of WSClient.running with the connection in state s: does it
\* assign STATE_DISCONNECTED
ExceptDisconnectsAlways(s) == TRUE
ExceptDisconnects(s) == s # STATE_STOPPED

\* WSClient.send_message: the write failed (or there is no socket)
SendFailedIgnoresSocket(c, o) == o # "ok"
SendFailed(c, o) == ~c.web_sock \/ o # "ok"

\* Controller.start_websocket(network_id): no await inside, one step
StartWebsocketCall(n, r1, r2) ==
    /\ n \in network_ids
    /\ units[n].made
    /\ FreeSlots(n) # {}
    /\ LET a == AllocateWireId(wire_map, n, r1, r2)
           c == NewClient(a.wire_id, session_ids[n])
           go == StartsLoop(c)
           ws1 == [websocket EXCEPT ![n] =
                      IF go THEN [c EXCEPT !.state = STATE_STARTING] ELSE c]
       IN /\ wire_map' = a.map
          /\ websocket' = ws1
          /\ tasks' = IF go THEN Spawn(n) ELSE tasks
          /\ wires' = [wires EXCEPT ![n] = a.wire_id]
          /\ last' = [NoLast EXCEPT
                        !.op = "start_websocket", !.net = n, !.was = c.state,
                        !.spawned = go,
                        !.sig = IF go THEN <<Signal(SIGNAL_CONNECTION_STATE, a.wire_id)>>
                                ELSE << >>,
                        !.cb = IF go THEN SessionHandlerState(ws1, a.map, a.wire_id)
                               ELSE << >>]
    /\ last_websocket_ping' = now
    /\ UNCHANGED <<units, callback>>
    /\ UNCHANGED sessionVars
    /\ UNCHANGED ctlVars

\* start_websocket for a network that has no connection yet
StartWebsocket(n, r1, r2) ==
    /\ ~websocket[n].made
    /\ StartWebsocketCall(n, r1, r2)

\* start_websocket for a network that has a connection: the new WSClient takes
\* the place of the old one in the table; the old object is not stopped, so the
\* loop task scheduled for it stays alive (tasks counts the loops scheduled for
\* the connection objects of the network, replaced ones included)
RestartWebsocket(n, r1, r2) ==
    /\ websocket[n].made
    /\ StartWebsocketCall(n, r1, r2)

\* WSClient.start() on a connection of the table
Start(n) ==
    /\ websocket[n].made
    /\ LET c == websocket[n]
           go == StartsLoop(c)
           ws1 == IF go THEN [websocket EXCEPT ![n].state = STATE_STARTING]
                  ELSE websocket
       IN /\ go => FreeSlots(n) # {}
          /\ websocket' = ws1
          /\ tasks' = IF go THEN Spawn(n) ELSE tasks
          /\ last' = [NoLast EXCEPT
                        !.op = "start", !.net = n, !.was = c.state, !.spawned = go,
                        !.sig = IF go THEN <<Signal(SIGNAL_CONNECTION_STATE, c.wire_id)>>
                                ELSE << >>,
                        !.cb = IF go THEN SessionHandlerState(ws1, wire_map, c.wire_id)
                               ELSE << >>]
    /\ UNCHANGED <<wire_map, units, callback, wires>>
    /\ UNCHANGED sessionVars
    /\ UNCHANGED ctlVars
    /\ UNCHANGED last_websocket_ping

\* Controller.stop_websocket(network_id) -> WSClient.stop()
Stop(n) ==
    /\ websocket[n].made
    /\ LET c == websocket[n]
           ws1 == [websocket EXCEPT ![n].state = STATE_STOPPED]
       IN /\ websocket' = ws1
          /\ last' = [NoLast EXCEPT
                        !.op = "stop", !.net = n, !.was = c.state,
                        !.sig = <<Signal(SIGNAL_CONNECTION_STATE, c.wire_id)>>,
                        !.cb = SessionHandlerState(ws1, wire_map, c.wire_id)]
    /\ UNCHANGED <<wire_map, tasks, units, callback, wires>>
    /\ UNCHANGED sessionVars
    /\ UNCHANGED ctlVars
    /\ UNCHANGED last_websocket_ping

\* WSClient.send_message(message): o is what web_sock.send_str ends with
SendMessage(n, o) ==
    /\ websocket[n].made
    /\ LET c == websocket[n]
           failed == SendFailed(c, o)
           ws1 == IF failed THEN [websocket EXCEPT ![n].state = STATE_DISCONNECTED]
                  ELSE websocket
       IN /\ websocket' = ws1
          /\ last' = [NoLast EXCEPT
                        !.op = "send_message", !.net = n, !.was = c.state,
                        !.outcome = IF c.web_sock THEN o ELSE "no socket",
                        !.ret = IF failed THEN "False" ELSE "True",
                        !.sig = IF failed
                                THEN <<Signal(SIGNAL_CONNECTION_STATE, c.wire_id)>>
                                ELSE << >>,
                        !.cb = IF failed THEN SessionHandlerState(ws1, wire_map, c.wire_id)
                               ELSE << >>]
    /\ UNCHANGED <<wire_map, tasks, units, callback, wires>>
    /\ UNCHANGED sessionVars
    /\ UNCHANGED ctlVars
    /\ UNCHANGED last_websocket_ping

\* ------------------------------------------------------------------ WSClient.running
\* an except clause of running() for exception e raised in ws_loop by task t of n,
\* with the connection table ws and the units un as the raising code left them
RunningExcept(n, t, e, op, ws, un, base) ==
    LET c == ws[n]
        disc == ExceptDisconnects(c.state)
        ws1 == IF disc THEN [ws EXCEPT ![n].state = STATE_DISCONNECTED] ELSE ws
        \* only the last clause (except Exception) re-raises, inside the same test
        reraised == disc /\ e = "Exception"
    IN /\ websocket' = ws1
       /\ units' = un
       /\ tasks' = [tasks EXCEPT ![n][t] = IF reraised THEN "none" ELSE "sleep"]
       /\ last' = [base EXCEPT
                     !.op = op, !.net = n, !.was = websocket[n].state, !.outcome = e,
                     !.ret = IF reraised THEN "raised" ELSE "caught",
                     !.sig = base.sig \o
                             (IF disc THEN <<Signal(SIGNAL_CONNECTION_STATE, c.wire_id)>>
                              ELSE << >>),
                     !.cb = base.cb \o
                            (IF disc THEN SessionHandlerState(ws1, wire_map, c.wire_id)
                             ELSE << >>)]

\* ws_loop: session.ws_connect(...) ends with o; on success the state becomes
\* running and the socket is kept
WsConnect(n, t, o) ==
    /\ tasks[n][t] = "connect"
    /\ IF o = "ok"
       THEN LET c == websocket[n]
                ws1 == [websocket EXCEPT ![n].state = STATE_RUNNING,
                                         ![n].web_sock = TRUE]
            IN /\ websocket' = ws1
               /\ tasks' = [tasks EXCEPT ![n][t] = "open"]
               /\ last' = [NoLast EXCEPT
                             !.op = "ws_connect", !.net = n, !.was = c.state,
                             !.outcome = o,
                             !.sig = <<Signal(SIGNAL_CONNECTION_STATE, c.wire_id)>>,
                             !.cb = SessionHandlerState(ws1, wire_map, c.wire_id)]
               /\ UNCHANGED units
       ELSE RunningExcept(n, t, o, "ws_connect", websocket, units, NoLast)
    /\ UNCHANGED <<wire_map, callback, wires>>
    /\ UNCHANGED sessionVars
    /\ UNCHANGED ctlVars
    /\ UNCHANGED last_websocket_ping

\* ws_loop: ws_open() sends the open frame with the connection's session id
WsOpen(n, t, o) ==
    /\ tasks[n][t] = "open"
    /\ IF o = "ok"
       THEN /\ tasks' = [tasks EXCEPT ![n][t] = "recv"]
            /\ last' = [NoLast EXCEPT
                          !.op = "ws_open", !.net = n, !.was = websocket[n].state,
                          !.outcome = o, !.open_session = websocket[n].session_id]
            /\ UNCHANGED <<websocket, units>>
       ELSE RunningExcept(n, t, o, "ws_open", websocket, units, NoLast)
    /\ UNCHANGED <<wire_map, callback, wires>>
    /\ UNCHANGED sessionVars
    /\ UNCHANGED ctlVars
    /\ UNCHANGED last_websocket_ping

\* the messages the socket iteration yields (a closed socket ends the iteration)
TEXT == "TEXT"
BINARY == "BINARY"
CLOSED == "CLOSED"
ERROR == "ERROR"
Messages(F) == {[type |-> ty, frame |-> f] : ty \in {TEXT, BINARY}, f \in F}
                 \cup {[type |-> ty, frame |-> NoFrame] : ty \in {CLOSED, ERROR}}

\* ws_loop: one pass of "async for msg in self.web_sock" with message m.
\* A data frame is stored and session_handler runs inside the same step; what it
\* raises reaches the except clauses of running().
WsReceive(n, t, m) ==
    /\ tasks[n][t] = "recv"
    /\ LET c == websocket[n]
           base == [NoLast EXCEPT !.op = "ws_receive", !.net = n, !.was = c.state,
                                  !.outcome = m.type]
       IN IF c.state = STATE_STOPPED \/ m.type \in {CLOSED, ERROR}
          THEN \* break: ws_loop returns, running() goes to its sleep
               /\ tasks' = [tasks EXCEPT ![n][t] = "sleep"]
               /\ last' = [base EXCEPT !.ret = "break"]
               /\ UNCHANGED <<websocket, units>>
          ELSE LET ws1 == [websocket EXCEPT ![n].data = m.frame]
                   h == SessionHandlerData(ws1, wire_map, units, c.wire_id)
                   seen == [base EXCEPT
                              !.rx = m.frame, !.used = h.used, !.to = h.to,
                              !.sig = <<Signal(SIGNAL_DATA, c.wire_id)>>,
                              !.cb = h.cb]
               IN IF h.raised = None
                  THEN /\ websocket' = ws1
                       /\ units' = h.units
                       /\ last' = [seen EXCEPT !.ret = "dispatched"]
                       /\ UNCHANGED tasks
                  ELSE RunningExcept(n, t, "Exception", "ws_receive", ws1, units, seen)
    /\ UNCHANGED <<wire_map, callback, wires>>
    /\ UNCHANGED sessionVars
    /\ UNCHANGED ctlVars
    /\ UNCHANGED last_websocket_ping

\* ws_loop: the socket iteration itself raises e
WsReceiveRaises(n, t, e) ==
    /\ tasks[n][t] = "recv"
    /\ RunningExcept(n, t, e, "ws_receive", websocket, units, NoLast)
    /\ UNCHANGED <<wire_map, callback, wires>>
    /\ UNCHANGED sessionVars
    /\ UNCHANGED ctlVars
    /\ UNCHANGED last_websocket_ping

\* Controller.message_handler(message, wire_id) is called with a wire id the
\* controller has allocated
MessageHandled(message, wire_id) ==
    /\ wire_map[wire_id] # None
    /\ LET h == MessageHandler(wire_map, units, message, wire_id)
       IN /\ units' = h.units
          /\ last' = [NoLast EXCEPT !.op = "message_handler", !.rx = message,
                                    !.to = h.to, !.peers = h.changes,
                                    !.ret = h.raised]
    /\ UNCHANGED <<websocket, wire_map, tasks, callback, wires>>
    /\ UNCHANGED sessionVars
    /\ UNCHANGED ctlVars
    /\ UNCHANGED last_websocket_ping

\* running(): asyncio.sleep(network_timeout) is over, the loop calls ws_loop again
SleepOverStays(n, t) == tasks[n][t] = "sleep" /\ UNCHANGED vars
SleepOver(n, t) ==
    /\ tasks[n][t] = "sleep"
    /\ tasks' = [tasks EXCEPT ![n][t] = "connect"]
    /\ last' = [NoLast EXCEPT !.op = "sleep_over", !.net = n,
                              !.was = websocket[n].state]
    /\ UNCHANGED <<websocket, wire_map, units, callback, wires>>
    /\ UNCHANGED sessionVars
    /\ UNCHANGED ctlVars
    /\ UNCHANGED last_websocket_ping

\* ------------------------------------------------------------------ keep-alive
\* ws_ping: "current_time < (self._last_websocket_ping + 60 * 3 + 30)" returns
PING_INTERVAL == 210
\* two steps of the clock make one interval
TickSeconds == PING_INTERVAL \div 2

PingDueLate(t, lastp) == t > lastp + PING_INTERVAL
PingDue(t, lastp) == ~(t < lastp + PING_INTERVAL)

\* "if not succcess: await self.reconnect()" after a send_message
TriggersReconnectNever(success) == FALSE
TriggersReconnect(success) == ~success

\* reconnect(): "if self._reconnecting: return"
ReentryGuardOff(flag) == FALSE
ReentryGuard(flag) == flag

\* WSClient.send_message on the connection of network n in the table ws, the
\* write ending with o: the table afterwards, the result and the signals
SendEffect(ws, um, n, o) ==
    LET c == ws[n]
        failed == SendFailed(c, o)
        ws1 == IF failed THEN [ws EXCEPT ![n].state = STATE_DISCONNECTED] ELSE ws
    IN [ws |-> ws1, ok |-> ~failed,
        sig |-> IF failed THEN <<Signal(SIGNAL_CONNECTION_STATE, c.wire_id)>>
                ELSE << >>,
        cb |-> IF failed THEN SessionHandlerState(ws1, um, c.wire_id) ELSE << >>]

\* one message handed to a connection by the controller
Sent(kind, wire_id, network_id, ok) ==
    [kind |-> kind, wire |-> wire_id, net |-> network_id, ok |-> ok]

\* self._wire_id_to_network_id.items(): the entries, here in key order (wire ids
\* are drawn at random, so either network can come first)
WireOrder(um) == SelectSeq([w \in WireIds |-> w], LAMBDA w : um[w] # None)

\* the loop of ws_ping over the entries todo while a reconnect is in progress
\* (each reconnect() it makes returns at once): one {"method": "ping"} per
\* entry on the connection of the entry's network
RECURSIVE PingPass(_, _, _, _)
PingPass(ws, um, todo, outs) ==
    IF todo = << >>
    THEN [ws |-> ws, sent |-> << >>, sig |-> << >>, cb |-> << >>, recon |-> 0]
    ELSE LET w == Head(todo)
             e == SendEffect(ws, um, um[w], outs[w])
             r == PingPass(e.ws, um, Tail(todo), outs)
         IN [ws |-> r.ws,
             sent |-> <<Sent("ping", w, um[w], e.ok)>> \o r.sent,
             sig |-> e.sig \o r.sig,
             cb |-> e.cb \o r.cb,
             recon |-> (IF TriggersReconnect(e.ok) THEN 1 ELSE 0) + r.recon]

\* what the write of a ping ends with (send_message treats AttributeError as
\* it treats ConnectionError)
PingOutcomes == {"ok", "ConnectionError"}

\* Controller.request: "await self.ws_ping()" before the HTTP call. The requests
\* of the model are the logins of create_session; with connections registered
\* they are made by the reconnect loop, so a reconnect() of this pass finds
\* _reconnecting set and returns at once. (A reconnect() that went past the
\* flag here would call create_session, request and ws_ping again with the
\* timer unchanged, without end; the step does not exist then.)
RequestPing ==
    IF ~PingDue(now, last_websocket_ping)
    THEN /\ UNCHANGED wsVars
         /\ UNCHANGED last_websocket_ping
    ELSE \E outs \in [WireIds -> PingOutcomes] :
            LET r == PingPass(websocket, wire_map, WireOrder(wire_map), outs)
            IN /\ r.recon > 0 => ReentryGuard(reconnecting)
               /\ websocket' = r.ws
               /\ last_websocket_ping' = now
               /\ last' = [NoLast EXCEPT
                             !.op = "ws_ping", !.due = TRUE, !.flag = reconnecting,
                             !.start = now, !.timer = last_websocket_ping,
                             !.sent = r.sent, !.recon = r.recon,
                             !.sig = r.sig, !.cb = r.cb]
               /\ UNCHANGED <<wire_map, tasks, units, callback, wires>>

\* errors.py: ERRORS, the error class of each vendor status code
ERROR_CODES == {400, 401, 403, 404, 405, 410, 416, 429, 500}
ERRORS(status_code) ==
    CASE status_code = 400 -> "BadRequest"
      [] status_code = 401 -> "Unauthorized"
      [] status_code = 403 -> "ApiNotEnabled"
      [] status_code = 404 -> "RequestedDataNotFound"
      [] status_code = 405 -> "MethodNotAllowed"
      [] status_code = 410 -> "InvalidSession"
      [] status_code = 416 -> "RetrievalIntervalIsTooLong"
      [] status_code = 429 -> "QoutaLimitsExceeded"
      [] status_code = 500 -> "CasambiAPIServerError"

\* errors.py get_error: ERRORS.get(status_code, AiocasambiException)
GetError(status_code) ==
    IF status_code \in ERROR_CODES THEN ERRORS(status_code) ELSE "AiocasambiException"

\* statuses a response can carry: success, redirect, the table, and error
\* statuses the table does not hold
Statuses == {200, 204, 302} \cup ERROR_CODES \cup {402, 502, 503}
ContentTypes == {"application/json", "text/html"}

\* Controller.request: what the call ends with for a response with this status
\* and content type: the error raised, or what is returned
RequestOutcome(status, content_type) ==
    IF status \in ERROR_CODES
    THEN [raised |-> GetError(status), returned |-> None]
    ELSE [raised |-> None,
          returned |-> IF content_type = "application/json" THEN "json" ELSE "response"]

\* the ping pass "await self.ws_ping()" makes when a ping is due (none otherwise)
RequestPingPass(outs) ==
    IF PingDue(now, last_websocket_ping)
    THEN PingPass(websocket, wire_map, WireOrder(wire_map), outs)
    ELSE [ws |-> websocket, sent |-> << >>, sig |-> << >>, cb |-> << >>, recon |-> 0]

\* the part of request() every call makes: ws_ping, then one session.request
RequestCall(outs, status, outcome, r) ==
    LET p == RequestPingPass(outs)
    IN /\ p.recon > 0 => reconnecting
       /\ websocket' = p.ws
       /\ last_websocket_ping' = IF PingDue(now, last_websocket_ping) THEN now
                                 ELSE last_websocket_ping
       /\ last' = [NoLast EXCEPT !.op = "request", !.arg = status, !.frame = 1,
                                 !.due = PingDue(now, last_websocket_ping),
                                 !.start = now, !.timer = last_websocket_ping,
                                 !.sent = p.sent, !.recon = p.recon,
                                 !.sig = p.sig, !.cb = p.cb,
                                 !.outcome = outcome, !.ret = r]
       /\ UNCHANGED <<wire_map, tasks, units, callback, wires>>
       /\ UNCHANGED sessionVars
       /\ UNCHANGED ctlVars

\* Controller.request(method, ...) gets a response with this status and content
\* type: one HTTP request, no loop around it
Request(status, content_type) ==
    \E outs \in [WireIds -> PingOutcomes] :
        LET o == RequestOutcome(status, content_type)
        IN RequestCall(outs, status, o.returned, o.raised)

\* Controller.request: session.request raises a ClientError, which is raised on
RequestRaises(e) ==
    \E outs \in [WireIds -> PingOutcomes] : RequestCall(outs, 0, None, e)

\* ------------------------------------------------------------------ create_session
NoSessions == [n \in Networks |-> None]

CsIdle == [pc |-> "idle", i |-> 0, attempts |-> 0, timeouts |-> 0, sleeps |-> 0,
           logged |-> {}, error |-> None, answer |-> None, nets |-> {}, gen |-> 0]

\* for i in range(0, MAX_RETRIES): the loop body runs for index i
RetriesLeftOffByOne(i) == i <= MAX_RETRIES
RetriesLeft(i) == i < MAX_RETRIES

\* the login request one pass of the loop body issues first
FirstRequest == IF user_password THEN "user_request" ELSE "network_request"

\* the session ids of one answer: the server hands out new ids at every login
Logins == {"first", "again"}
Issued(sid, g) == IF g = "first" THEN sid ELSE sid \o "*"

\* create_user_session after the request returned data: the umbrella id goes to
\* the header, every network of the answer is added with its own or the umbrella id
UserSessionIds(nets, own, g) ==
    [n \in Networks |->
        IF n \in nets
        THEN IF n \in own THEN Issued(UserNetSession[n], g)
                          ELSE Issued(UmbrellaSession, g)
        ELSE session_ids[n]]

\* create_network_session after the request returned data
NetworkSessionIds(nets, g) ==
    [n \in Networks |-> IF n \in nets THEN Issued(NetSession[n], g) ELSE session_ids[n]]

\* the except clauses of create_session: what a login raised is caught, and the
\* loop goes on after the sleep, only for TimeoutError
RetriedWithUnauthorized(o) == o \in {"TimeoutError", "Unauthorized"}
Retried(o) == o = "TimeoutError"

\* create_session() is called. Without any password no pass of the loop awaits
\* anything: the loop runs out and the call raises at once. Otherwise the first
\* login request goes out (request() runs ws_ping first).
CreateSession ==
    /\ cs.pc = "idle"
    /\ IF user_password \/ network_password
       THEN /\ cs' = [cs EXCEPT !.pc = FirstRequest, !.attempts = 1]
            /\ RequestPing
       ELSE /\ cs' = [cs EXCEPT !.pc = "raised", !.i = MAX_RETRIES,
                                !.error = "AiocasambiException"]
            /\ UNCHANGED wsVars
            /\ UNCHANGED last_websocket_ping
    /\ UNCHANGED <<user_password, network_password, header_session, network_ids,
                   session_ids>>
    /\ UNCHANGED ctlVars

\* POST /users/session answers with data: create_user_session fills the maps and
\* create_session returns
UserLoginOk(nets, own, g) ==
    /\ cs.pc = "user_request"
    /\ header_session' = Issued(UmbrellaSession, g)
    /\ network_ids' = network_ids \cup nets
    /\ session_ids' = UserSessionIds(nets, own, g)
    /\ cs' = [cs EXCEPT !.pc = "returned", !.logged = @ \cup {"user"},
                        !.answer = "ok", !.nets = nets, !.gen = g]
    /\ UNCHANGED <<user_password, network_password>>
    /\ UNCHANGED wsVars
    /\ UNCHANGED ctlVars
    /\ UNCHANGED last_websocket_ping

\* POST /networks/session answers with data
NetworkLoginOk(nets, g) ==
    /\ cs.pc = "network_request"
    /\ network_ids' = network_ids \cup nets
    /\ session_ids' = NetworkSessionIds(nets, g)
    /\ cs' = [cs EXCEPT !.pc = "returned", !.logged = @ \cup {"network"},
                        !.answer = "ok", !.nets = nets, !.gen = g]
    /\ UNCHANGED <<user_password, network_password, header_session>>
    /\ UNCHANGED wsVars
    /\ UNCHANGED ctlVars
    /\ UNCHANGED last_websocket_ping

\* a login request raises o: TimeoutError is caught (the backoff sleep starts),
\* anything else leaves create_session
LoginRaises(o) ==
    /\ cs.pc \in {"user_request", "network_request"}
    /\ o # "ok"
    /\ IF Retried(o)
       THEN cs' = [cs EXCEPT !.pc = "sleep", !.timeouts = @ + 1, !.sleeps = @ + 1,
                             !.answer = o]
       ELSE cs' = [cs EXCEPT !.pc = "raised", !.error = o, !.answer = o]
    /\ UNCHANGED <<user_password, network_password, header_session, network_ids,
                   session_ids>>
    /\ UNCHANGED wsVars
    /\ UNCHANGED ctlVars
    /\ UNCHANGED last_websocket_ping

\* sleep(network_timeout) is over: continue with the next index (the next login
\* request goes out), or leave the loop and raise AiocasambiException
BackoffOver ==
    /\ cs.pc = "sleep"
    /\ IF RetriesLeft(cs.i + 1)
       THEN /\ cs' = [cs EXCEPT !.pc = FirstRequest, !.i = @ + 1, !.attempts = @ + 1,
                                !.answer = None]
            /\ RequestPing
       ELSE /\ cs' = [cs EXCEPT !.pc = "raised", !.i = @ + 1,
                                !.error = "AiocasambiException"]
            /\ UNCHANGED wsVars
            /\ UNCHANGED last_websocket_ping
    /\ UNCHANGED <<user_password, network_password, header_session, network_ids,
                   session_ids>>
    /\ UNCHANGED ctlVars

NonEmptyNets == SUBSET Networks \ {{}}

\* ------------------------------------------------------------------ reconnect
NoRc == [pc |-> "idle", owner |-> None, seen |-> {}, error |-> None,
         active |-> 0, table |-> [n \in Networks |-> NoConn], ids |-> NoSessions]

\* reconnect() up to its first await, called with the connection table ws: it
\* returns at once when _reconnecting is set; else it sets the flag and calls
\* create_session()
ReconnectCall(owner, ws) ==
    IF ReentryGuard(reconnecting)
    THEN UNCHANGED <<reconnecting, rc, cs>>
    ELSE /\ reconnecting' = TRUE
         /\ rc' = [NoRc EXCEPT !.pc = "session", !.owner = owner,
                               !.active = rc.active + 1,
                               !.table = ws, !.ids = session_ids]
         /\ cs' = CsIdle

\* the except clauses of reconnect(): these are followed by the sleep and the
\* next pass of "while True"
ReconnectCaught == {"QoutaLimitsExceeded", "ClientConnectorError", "TimeoutError"}

\* "self.websocket[network_id].session_id = self._session_ids[network_id]" for
\* every connection of the table
PropagateNothing(ws, sids) == ws
PropagateSessions(ws, sids) ==
    [n \in Networks |->
        IF ws[n].made THEN [ws[n] EXCEPT !.session_id = sids[n]] ELSE ws[n]]

\* what the login requests of the create_session call c failed with
AnswersOf(c) ==
    (IF c.timeouts > 0 THEN {"TimeoutError"} ELSE {})
        \cup (IF c.answer \in {None, "ok"} THEN {} ELSE {c.answer})

\* get_websockets_states(): every connection of the table is running
AllRunning(ws) == \A n \in Networks : ws[n].made => ws[n].state = STATE_RUNNING

\* Controller.get_websocket_state(network_id): self.websocket[network_id].state;
\* a network without an entry in the table raises KeyError
GetWebsocketState(ws, network_id) ==
    IF ws[network_id].made THEN ws[network_id].state ELSE "KeyError"

\* Unit.online (getter) of a unit of network_id whose _online is flag: what the
\* property returns, or the exception that leaves it
Online(ws, network_id, flag) ==
    LET state == GetWebsocketState(ws, network_id)
    IN IF state = "KeyError" THEN "KeyError"
       ELSE IF state # STATE_RUNNING THEN "False"
       ELSE IF flag THEN "True" ELSE "False"

\* ------------------------------------------------------------------ ws_send_message
Item(k, w, n, t) == [k |-> k, w |-> w, n |-> n, t |-> t]

NoCall == [pc |-> "idle", net |-> None, todo |-> << >>, due |-> FALSE, start |-> 0,
           timer |-> 0, sent |-> << >>, recon |-> 0, error |-> None]

\* the sends of one pass of ws_ping, in the order of the entries
PingItems(um) ==
    [i \in DOMAIN WireOrder(um) |->
        Item("ping", WireOrder(um)[i], um[WireOrder(um)[i]], 0)]

\* the call c after a send (or after reconnect() returned): when the loop of
\* ws_ping is over the timer is set to the time the pass began; when nothing is
\* left the call returns
Proceed(c, lwp) ==
    IF c.todo # << >> /\ Head(c.todo).k = "timer"
    THEN [call |-> [c EXCEPT !.todo = Tail(@)], ping |-> Head(c.todo).t]
    ELSE [call |-> IF c.todo = << >> THEN [c EXCEPT !.pc = "returned"] ELSE c,
          ping |-> lwp]

\* ws_send_message(msg, network_id) is called: ws_ping() reads the clock and
\* returns at once unless a ping is due. The call up to its first send and the
\* timer afterwards
StartCall(n) ==
    LET due == PingDue(now, last_websocket_ping)
        c == [NoCall EXCEPT
                !.pc = "run", !.net = n, !.due = due, !.start = now,
                !.timer = last_websocket_ping,
                !.todo = (IF due
                          THEN PingItems(wire_map) \o <<Item("timer", 0, None, now)>>
                          ELSE << >>)
                         \o <<Item("msg", websocket[n].wire_id, n, 0)>>]
    IN Proceed(c, last_websocket_ping)

WsSendMessage(n) ==
    /\ call.pc \in {"idle", "returned", "raised"}
    /\ websocket[n].made
    /\ call' = StartCall(n).call
    /\ last_websocket_ping' = StartCall(n).ping
    /\ last' = [NoLast EXCEPT !.op = "ws_send_message", !.net = n,
                              !.due = PingDue(now, last_websocket_ping),
                              !.flag = reconnecting, !.start = now,
                              !.timer = last_websocket_ping]
    /\ UNCHANGED <<websocket, wire_map, tasks, units, callback, wires>>
    /\ UNCHANGED sessionVars
    /\ UNCHANGED <<reconnecting, now, rc, ini, gus, iuc, unit, registry>>

\* the next send of the call (a ping of the pass, or the message itself), the
\* write ending with o; a failed send calls reconnect()
WsSendStep(o) ==
    /\ call.pc = "run"
    /\ Head(call.todo).k # "http"
    /\ LET it == Head(call.todo)
           e == SendEffect(websocket, wire_map, it.n, o)
           calls == TriggersReconnect(e.ok)
           waits == calls /\ ~ReentryGuard(reconnecting)
           c1 == [call EXCEPT !.todo = Tail(@),
                              !.sent = Append(@, Sent(it.k, it.w, it.n, e.ok)),
                              !.recon = @ + (IF calls THEN 1 ELSE 0)]
           p == Proceed(c1, last_websocket_ping)
       IN /\ websocket' = e.ws
          /\ IF calls THEN ReconnectCall("ws_send_message", e.ws)
                      ELSE UNCHANGED <<reconnecting, rc, cs>>
          /\ IF waits
             THEN /\ call' = [c1 EXCEPT !.pc = "reconnect"]
                  /\ UNCHANGED last_websocket_ping
             ELSE /\ call' = p.call
                  /\ last_websocket_ping' = p.ping
          /\ last' = [NoLast EXCEPT
                        !.op = "ws_send", !.net = it.n, !.was = websocket[it.n].state,
                        !.outcome = IF websocket[it.n].web_sock THEN o ELSE "no socket",
                        !.ret = IF e.ok THEN "True" ELSE "False",
                        !.sig = e.sig, !.cb = e.cb, !.flag = reconnecting,
                        !.recon = IF calls THEN 1 ELSE 0,
                        !.sent = <<Sent(it.k, it.w, it.n, e.ok)>>,
                        !.timer = last_websocket_ping]
    /\ UNCHANGED <<wire_map, tasks, units, callback, wires>>
    /\ UNCHANGED <<user_password, network_password, header_session, network_ids,
                   session_ids>>
    /\ UNCHANGED <<now, ini, gus, iuc, unit, registry>>

\* check_connection(): reconnect() unless every connection is running
CheckConnection ==
    /\ LET healthy == AllRunning(websocket)
       IN /\ IF healthy THEN UNCHANGED <<reconnecting, rc, cs>>
                        ELSE ReconnectCall("check_connection", websocket)
          /\ last' = [NoLast EXCEPT
                        !.op = "check_connection", !.flag = reconnecting,
                        !.recon = IF healthy THEN 0 ELSE 1,
                        !.ret = IF healthy THEN "healthy"
                                ELSE IF ReentryGuard(reconnecting) THEN "at once"
                                ELSE "entered"]
    /\ UNCHANGED <<websocket, wire_map, tasks, units, callback, wires>>
    /\ UNCHANGED <<user_password, network_password, header_session, network_ids,
                   session_ids>>
    /\ UNCHANGED <<now, call, ini, gus, iuc, unit, registry, last_websocket_ping>>

\* reconnect(): "await self.create_session()" is over. On success the flag is
\* cleared and the session ids go to the connections; a caught exception starts
\* the sleep; any other exception leaves reconnect() (the flag stays set)
ReconnectResume ==
    /\ rc.pc = "session"
    /\ cs.pc \in {"returned", "raised"}
    /\ LET seen == rc.seen \cup AnswersOf(cs)
           mine == rc.owner = "ws_send_message" /\ call.pc = "reconnect"
       IN IF cs.pc = "returned"
          THEN /\ reconnecting' = FALSE
               /\ websocket' = PropagateSessions(websocket, session_ids)
               /\ rc' = [rc EXCEPT !.pc = "returned", !.seen = seen, !.active = @ - 1]
               /\ IF mine
                  THEN LET p == Proceed([call EXCEPT !.pc = "run"], last_websocket_ping)
                       IN /\ call' = p.call
                          /\ last_websocket_ping' = p.ping
                  ELSE UNCHANGED <<call, last_websocket_ping>>
               /\ last' = [NoLast EXCEPT !.op = "reconnect", !.ret = "returned",
                                         !.timer = last_websocket_ping]
          ELSE IF cs.error \in ReconnectCaught
          THEN /\ rc' = [rc EXCEPT !.pc = "sleep", !.seen = seen]
               /\ last' = [NoLast EXCEPT !.op = "reconnect", !.ret = "caught",
                                         !.outcome = cs.error,
                                         !.timer = last_websocket_ping]
               /\ UNCHANGED <<reconnecting, websocket, call, last_websocket_ping>>
          ELSE /\ rc' = [rc EXCEPT !.pc = "raised", !.seen = seen, !.error = cs.error,
                                   !.active = @ - 1]
               /\ call' = IF mine THEN [call EXCEPT !.pc = "raised", !.error = cs.error]
                          ELSE call
               /\ last' = [NoLast EXCEPT !.op = "reconnect", !.ret = "raised",
                                         !.outcome = cs.error,
                                         !.timer = last_websocket_ping]
               /\ UNCHANGED <<reconnecting, websocket, last_websocket_ping>>
    /\ UNCHANGED <<wire_map, tasks, units, callback, wires>>
    /\ UNCHANGED sessionVars
    /\ UNCHANGED <<now, ini, gus, iuc, unit, registry>>

\* reconnect(): sleep(network_timeout) is over, create_session() is called again
ReconnectSleepOver ==
    /\ rc.pc = "sleep"
    /\ rc' = [rc EXCEPT !.pc = "session"]
    /\ cs' = CsIdle
    /\ UNCHANGED <<user_password, network_password, header_session, network_ids,
                   session_ids>>
    /\ UNCHANGED wsVars
    /\ UNCHANGED <<reconnecting, now, call, ini, gus, iuc, unit, registry, last_websocket_ping>>

\* request() is called from outside create_session: ws_ping() first, as in
\* ws_send_message, then the HTTP request. The call up to its first await
RequestBegin ==
    /\ call.pc \in {"idle", "returned", "raised"}
    /\ LET due == PingDue(now, last_websocket_ping)
           c == [NoCall EXCEPT
                   !.pc = "run", !.due = due, !.start = now,
                   !.timer = last_websocket_ping,
                   !.todo = (IF due
                             THEN PingItems(wire_map) \o <<Item("timer", 0, None, now)>>
                             ELSE << >>)
                            \o <<Item("http", 0, None, 0)>>]
           p == Proceed(c, last_websocket_ping)
       IN /\ call' = p.call
          /\ last_websocket_ping' = p.ping
          /\ last' = [NoLast EXCEPT !.op = "request_begin", !.due = due,
                                    !.flag = reconnecting, !.start = now,
                                    !.timer = last_websocket_ping]
    /\ UNCHANGED <<websocket, wire_map, tasks, units, callback, wires>>
    /\ UNCHANGED sessionVars
    /\ UNCHANGED <<reconnecting, now, rc, ini, gus, iuc, unit, registry>>

\* the HTTP request of that call is answered with this status
HttpAnswer(status, content_type) ==
    /\ call.pc = "run"
    /\ Head(call.todo).k = "http"
    /\ LET o == RequestOutcome(status, content_type)
       IN /\ call' = IF o.raised = None
                     THEN [call EXCEPT !.pc = "returned", !.todo = Tail(@)]
                     ELSE [call EXCEPT !.pc = "raised", !.todo = Tail(@),
                                       !.error = o.raised]
          /\ last' = [NoLast EXCEPT !.op = "request", !.arg = status, !.frame = 1,
                                    !.outcome = o.returned, !.ret = o.raised,
                                    !.sent = call.sent, !.recon = call.recon,
                                    !.due = call.due, !.start = call.start,
                                    !.timer = call.timer]
    /\ UNCHANGED <<websocket, wire_map, tasks, units, callback, wires>>
    /\ UNCHANGED sessionVars
    /\ UNCHANGED <<reconnecting, now, rc, ini, gus, iuc, unit, registry,
                   last_websocket_ping>>

\* the clock moves on
Tick ==
    /\ now < MaxTicks * TickSeconds
    /\ now' = now + TickSeconds
    /\ UNCHANGED sessionVars
    /\ UNCHANGED wsVars
    /\ UNCHANGED <<reconnecting, rc, call, ini, gus, iuc, unit, registry, last_websocket_ping>>

\* ------------------------------------------------------------------ unit.py: Unit
UNIT_STATE_OFF == "off"
UNIT_STATE_ON == "on"

\* "value >= 0 and value <= 1" (set_unit_value, set_unit_distribution)
InRange(v) == v >= 0 /\ v <= LevelSteps

\* self._controls of a Unit: for each type, whether a control of that type is in
\* the mapping, and its "value"
NoControl == [present |-> FALSE, value |-> 0]
UnitControlTypes == {"Dimmer", "Vertical"}
NoUnitControls == [t \in UnitControlTypes |-> NoControl]
UnitControls ==
    [UnitControlTypes ->
        {NoControl} \cup {[present |-> TRUE, value |-> v] : v \in 0 .. LevelSteps}]

\* Unit.__init__ with its defaults (value 0, distribution 0, state off) and a
\* CCT control that advertises [lo, hi]; the unit belongs to network "A"
NewUnit(lo, hi) ==
    [value |-> 0, distribution |-> 0, state |-> UNIT_STATE_OFF,
     cct_min |-> lo, cct_max |-> hi, controls |-> NoUnitControls]
UnitNetwork == "A"

\* Unit.value (setter): the unit afterwards and what is raised
UnitValueSetter(u, v) ==
    IF v = 0
    THEN [unit |-> [u EXCEPT !.state = UNIT_STATE_OFF, !.value = v], raised |-> None]
    ELSE IF v > 0 /\ v <= LevelSteps
    THEN [unit |-> [u EXCEPT !.state = UNIT_STATE_ON, !.value = v], raised |-> None]
    ELSE [unit |-> u, raised |-> "AiocasambiException"]

\* Unit.distribution (setter)
UnitDistributionSetter(u, d) ==
    IF d >= 0 /\ d <= LevelSteps
    THEN [unit |-> [u EXCEPT !.distribution = d], raised |-> None]
    ELSE [unit |-> u, raised |-> "AiocasambiException"]

\* Unit.value (getter): the "value" of the Dimmer control, 0 without one
UnitValueGetter(u) ==
    IF u.controls["Dimmer"].present THEN u.controls["Dimmer"].value ELSE 0

\* Unit.distribution (getter): the "value" of the Vertical control, 0 without one
UnitDistributionGetter(u) ==
    IF u.controls["Vertical"].present THEN u.controls["Vertical"].value ELSE 0

\* Unit.state (setter): off goes through the value setter, then the state is
\* stored whatever it is
UnitStateSetter(u, state) ==
    LET u1 == IF state = UNIT_STATE_OFF THEN UnitValueSetter(u, 0).unit ELSE u
    IN [u1 EXCEPT !.state = state]

\* set_unit_color_temperature: "if target_value % 50 != 0:
\* target_value = int(target_value / 50) * 50 + 50" (targets are not negative)
CCT_STEP == 50
ToStep(target_value) ==
    IF target_value % CCT_STEP # 0
    THEN (target_value \div CCT_STEP) * CCT_STEP + CCT_STEP
    ELSE target_value

\* get_supported_color_temperature with a CCT control among the controls
GetSupportedColorTemperature(u) == [cct_min |-> u.cct_min, cct_max |-> u.cct_max]

\* set_unit_color_temperature(value, source="TW"): the "ColorTemperature" value
\* of the controlUnit frame
ColorTemperatureSent(u, value) ==
    LET target_value == ToStep(value)
        r == GetSupportedColorTemperature(u)
    IN IF target_value < r.cct_min THEN r.cct_min
       ELSE IF target_value > r.cct_max THEN r.cct_max
       ELSE target_value

\* the value setter is called on the unit
SetValue(v) ==
    /\ unit' = UnitValueSetter(unit, v).unit
    /\ last' = [NoLast EXCEPT !.op = "value", !.arg = v,
                              !.ret = UnitValueSetter(unit, v).raised]
    /\ UNCHANGED sessionVars
    /\ UNCHANGED <<websocket, wire_map, tasks, units, callback, wires>>
    /\ UNCHANGED <<reconnecting, last_websocket_ping, now, rc, call, ini, gus, iuc, registry>>

\* the distribution setter is called on the unit
SetDistribution(d) ==
    /\ unit' = UnitDistributionSetter(unit, d).unit
    /\ last' = [NoLast EXCEPT !.op = "distribution", !.arg = d,
                              !.ret = UnitDistributionSetter(unit, d).raised]
    /\ UNCHANGED sessionVars
    /\ UNCHANGED <<websocket, wire_map, tasks, units, callback, wires>>
    /\ UNCHANGED <<reconnecting, last_websocket_ping, now, rc, call, ini, gus, iuc, registry>>

\* the state setter is called on the unit
SetState(state) ==
    /\ unit' = UnitStateSetter(unit, state)
    /\ last' = [NoLast EXCEPT !.op = "state", !.outcome = state]
    /\ UNCHANGED sessionVars
    /\ UNCHANGED <<websocket, wire_map, tasks, units, callback, wires>>
    /\ UNCHANGED <<reconnecting, last_websocket_ping, now, rc, call, ini, gus, iuc, registry>>

\* a set_unit_* coroutine raises before it builds the frame when its range test
\* fails, and before it calls ws_send_message when the setter it calls raises
RaisesNever(valid, r) == FALSE
Raises(valid, r) == ~valid \/ r.raised # None

\* a set_unit_* coroutine of the unit: either it raises before anything was
\* handed to the controller, or the setter has run and ws_send_message(message)
\* is called with the frame whose control value is sent
ControlUnit(op, arg, valid, r, sent) ==
    /\ call.pc \in {"idle", "returned", "raised"}
    /\ websocket[UnitNetwork].made
    /\ IF Raises(valid, r)
       THEN /\ last' = [NoLast EXCEPT !.op = op, !.arg = arg,
                                      !.ret = "AiocasambiException"]
            /\ UNCHANGED <<unit, call, last_websocket_ping>>
       ELSE /\ unit' = r.unit
            /\ call' = StartCall(UnitNetwork).call
            /\ last_websocket_ping' = StartCall(UnitNetwork).ping
            /\ last' = [NoLast EXCEPT !.op = op, !.arg = arg, !.frame = sent,
                                      !.net = UnitNetwork,
                                      !.due = PingDue(now, last_websocket_ping),
                                      !.start = now, !.timer = last_websocket_ping]
    /\ UNCHANGED sessionVars
    /\ UNCHANGED <<websocket, wire_map, tasks, units, callback, wires>>
    /\ UNCHANGED <<reconnecting, now, rc, ini, gus, iuc, registry>>

\* set_unit_value(value=v)
SetUnitValue(v) ==
    ControlUnit("set_unit_value", v, InRange(v), UnitValueSetter(unit, v), v)

\* set_unit_distribution(distribution=d)
SetUnitDistribution(d) ==
    ControlUnit("set_unit_distribution", d, InRange(d),
                UnitDistributionSetter(unit, d), d)

\* set_unit_color_temperature(value=t)
SetUnitColorTemperature(t) ==
    ControlUnit("set_unit_color_temperature", t, TRUE,
                [unit |-> unit, raised |-> None], ColorTemperatureSent(unit, t))

\* ------------------------------------------------------------------ units.py: Units
\* the unit ids of the collection (the key of a unit is f"{network_id}-{id}")
UnitKeys == {1, 2}
ControlTypes == {"Dimmer", "Overheat"}
Control(type, value) == [type |-> type, value |-> value]
NoControls == [t \in ControlTypes |-> NoControl]

\* Unit.controls (setter) with a list: self._controls[control['type']] = control
RECURSIVE ControlsSetter(_, _)
ControlsSetter(own, controls) ==
    IF controls = << >> THEN own
    ELSE ControlsSetter([own EXCEPT ![Head(controls).type] =
                            [present |-> TRUE, value |-> Head(controls).value]],
                        Tail(controls))

AbsentUnit == [made |-> FALSE, obj |-> 0, name |-> "", online |-> FALSE, value |-> 0,
               state |-> UNIT_STATE_OFF, controls |-> NoControls]
\* units.py Unit.__init__: the obj-th Unit object the collection built
UnitsUnit(obj, name, online, controls) ==
    [made |-> TRUE, obj |-> obj, name |-> name, online |-> online, value |-> 0,
     state |-> UNIT_STATE_OFF, controls |-> ControlsSetter(NoControls, controls)]

\* units.py Unit.value (setter): the class defines the property twice and the
\* second definition, which stores whatever it is given, is the one in effect
\* (it replaces the stored value; it does not add to it)
UnitsUnitValueAdder(u, value) == [u EXCEPT !.value = @ + value]
UnitsUnitValueSetter(u, value) == [u EXCEPT !.value = value]

\* str.strip() on the names of the model
Strip(name) == IF name = "a " THEN "a" ELSE IF name = " b" THEN "b" ELSE name

NoRegistry == [online |-> TRUE, objs |-> 0, units |-> [k \in UnitKeys |-> AbsentUnit]]
\* Units.__init__ -> __process_units with the listing {'1': {'name': 'a ', ...}}
ProcessUnits(listing) ==
    [NoRegistry EXCEPT !.objs = 1,
                       !.units[1] = UnitsUnit(1, Strip(listing), TRUE, << >>)]

\* the value setter is called on unit k of the collection
RegistrySetValue(k, v) ==
    /\ registry.units[k].made
    /\ registry' = [registry EXCEPT !.units[k] = UnitsUnitValueSetter(@, v)]
    /\ last' = [NoLast EXCEPT !.op = "units value", !.arg = v, !.frame = k]
    /\ UNCHANGED sessionVars
    /\ UNCHANGED <<websocket, wire_map, tasks, units, callback, wires>>
    /\ UNCHANGED <<reconnecting, last_websocket_ping, now, rc, call, ini, gus, iuc, unit>>

\* a polled network state: None, a number, a list, or a mapping with or without
\* the 'units' section; an entry of the section is one unit's state
NoEntry == [present |-> FALSE, online |-> FALSE, name |-> "", dimLevel |-> 0,
            controls |-> << >>]
Entry(online, name, dimLevel) ==
    [present |-> TRUE, online |-> online, name |-> name, dimLevel |-> dimLevel,
     controls |-> <<Control("Dimmer", dimLevel)>>]
Data(kind, has_units, entries) == [kind |-> kind, has_units |-> has_units, units |-> entries]
FrameLevels == {0, LevelSteps}
SnapshotEntries == {NoEntry} \cup {Entry(o, "b", v) : o \in BOOLEAN, v \in FrameLevels}
Snapshots ==
    {Data(k, FALSE, [u \in UnitKeys |-> NoEntry]) : k \in {"None", "number", "list", "mapping"}}
        \cup {Data("mapping", TRUE, e) : e \in [UnitKeys -> SnapshotEntries]}

\* "'units' not in data" raises TypeError for None and for a number
NotIterable(kind) == kind \in {"None", "number"}

\* the ids of a sequence-valued section in the order the loop visits them
KeyOrder(present(_)) == SelectSeq([k \in 1 .. Cardinality(UnitKeys) |-> k], present)

\* process_network_state: the loop "for unit_key in data['units']" over todo.
\* self.units[key] of an id the collection does not hold raises KeyError and the
\* units visited before keep what they were given
RECURSIVE NetworkStateLoop(_, _, _)
NetworkStateLoop(R, data, todo) ==
    IF todo = << >> THEN [reg |-> R, raised |-> None]
    ELSE LET k == Head(todo)
             unit_data == data.units[k]
             u == R.units[k]
             u1 == [u EXCEPT !.online = unit_data.online, !.name = unit_data.name]
             u2 == IF unit_data.online
                   THEN UnitsUnitValueSetter(u1, unit_data.dimLevel) ELSE u1
         IN IF ~u.made THEN [reg |-> R, raised |-> "KeyError"]
            ELSE NetworkStateLoop([R EXCEPT !.units[k] = u2], data, Tail(todo))

\* Units.process_network_state(data)
UnitsProcessNetworkState(R, data) ==
    IF NotIterable(data.kind) THEN [reg |-> R, raised |-> "TypeError"]
    ELSE IF ~data.has_units THEN [reg |-> R, raised |-> None]
    ELSE NetworkStateLoop(R, data, KeyOrder(LAMBDA k : data.units[k].present))

\* a push frame; id 0 stands for a frame without 'id', online "absent" for a
\* frame without 'online'
Push(method, id, online, name, controls) ==
    [method |-> method, id |-> id, online |-> online, name |-> name,
     controls |-> controls]
ControlLists ==
    {<< >>, <<Control("Dimmer", 0), Control("Dimmer", LevelSteps)>>}
        \cup {<<Control("Overheat", 0), Control("Dimmer", v)>> : v \in FrameLevels}
PushFrames ==
    {Push("unitChanged", i, o, n, c) : i \in UnitKeys, o \in {"absent", "True", "False"},
                                      n \in {"a ", " b"}, c \in ControlLists}
        \cup {Push("unitChanged", 0, "True", "a ", <<Control("Dimmer", LevelSteps)>>),
              Push("unitRemoved", 1, "True", "a ", <<Control("Dimmer", LevelSteps)>>)}

\* process_unit_event: "if key not in self.units" (a new unit is discovered)
DiscoversAlways(R, key) == TRUE
Discovers(R, key) == ~R.units[key].made

\* process_unit_event: the loop "for control in controls" over todo; each
\* Dimmer control builds the unit when it is new, then updates value, online
\* and controls and enters the unit in the change-set
RECURSIVE UnitEventLoop(_, _, _, _)
UnitEventLoop(R, msg, todo, changes) ==
    IF todo = << >> THEN [reg |-> R, changes |-> changes, returned |-> "dict"]
    ELSE IF Head(todo).type # "Dimmer"
    THEN UnitEventLoop(R, msg, Tail(todo), changes)
    ELSE LET key == msg.id
             new == Discovers(R, key)
             R1 == IF new
                   THEN [R EXCEPT !.objs = @ + 1,
                                  !.units[key] =
                                     UnitsUnit(R.objs + 1, Strip(msg.name),
                                               msg.online = "True", msg.controls)]
                   ELSE R
             u1 == UnitsUnitValueSetter(R1.units[key], Head(todo).value)
             u2 == IF msg.online # "absent"
                   THEN [u1 EXCEPT !.online = msg.online = "True"] ELSE u1
             u3 == [u2 EXCEPT !.controls = ControlsSetter(@, msg.controls)]
         IN UnitEventLoop([R1 EXCEPT !.units[key] = u3], msg, Tail(todo),
                          changes \cup {key})

\* Units.process_unit_event(msg)
UnitsProcessUnitEvent(R, msg) ==
    IF msg.id = 0 THEN [reg |-> R, changes |-> {}, returned |-> "None"]
    ELSE IF msg.method = "unitChanged" THEN UnitEventLoop(R, msg, msg.controls, {})
    ELSE [reg |-> R, changes |-> {}, returned |-> "dict"]

\* process_network_state(data) is called on the collection
NetworkState(data) ==
    /\ registry' = UnitsProcessNetworkState(registry, data).reg
    /\ last' = [NoLast EXCEPT !.op = "process_network_state", !.outcome = data.kind,
                              !.ret = UnitsProcessNetworkState(registry, data).raised,
                              !.changes = {k \in UnitKeys : data.units[k].present}]
    /\ UNCHANGED sessionVars
    /\ UNCHANGED <<websocket, wire_map, tasks, units, callback, wires>>
    /\ UNCHANGED <<reconnecting, last_websocket_ping, now, rc, call, ini, gus, iuc, unit>>

\* process_unit_event(msg) is called on the collection
UnitEvent(msg) ==
    /\ registry' = UnitsProcessUnitEvent(registry, msg).reg
    /\ last' = [NoLast EXCEPT !.op = "process_unit_event", !.msg = msg,
                              !.flag = last.op = "process_unit_event" /\ last.msg = msg,
                              !.ret = UnitsProcessUnitEvent(registry, msg).returned,
                              !.changes = UnitsProcessUnitEvent(registry, msg).changes]
    /\ UNCHANGED sessionVars
    /\ UNCHANGED <<websocket, wire_map, tasks, units, callback, wires>>
    /\ UNCHANGED <<reconnecting, last_websocket_ping, now, rc, call, ini, gus, iuc, unit>>


\* ------------------------------------------------------------------ initialize
NoIni == [pc |-> "idle", i |-> 0, j |-> 0, at |-> None, todo |-> {},
          result |-> {}, failed |-> {}, sresult |-> {}, sfailed |-> {},
          error |-> None, op |-> None, session |-> None, notified |-> {}]

\* what a GET of initialize() can end with
FetchOutcomes == {"ok", "Unauthorized", "TimeoutError"}

\* "for failed_network_id in failed_network_ids:
\*      self.__remove_network_id(network_id=failed_network_id)": the coroutine
\* is created and never awaited, its body does not run
RemoveFailed(ids, failed) == ids

\* "if not self._network_ids or len(self._network_ids) == 0: raise"
NetworkIdsNotSetNever(ids) == FALSE
NetworkIdsNotSet(ids) == ids = {}

\* initialize() is called: get_network_information() raises when no network id
\* is known, else it starts to ask the networks one after the other
Initialize ==
    /\ ini.pc = "idle"
    /\ ini' = IF NetworkIdsNotSet(network_ids)
              THEN [NoIni EXCEPT !.pc = "raised", !.op = "initialize",
                                 !.error = "AiocasambiException"]
              ELSE [NoIni EXCEPT !.pc = "info_request", !.op = "initialize",
                                 !.todo = network_ids]
    /\ UNCHANGED sessionVars
    /\ UNCHANGED wsVars
    /\ UNCHANGED <<unit, registry, gus, iuc>>
    /\ UNCHANGED <<reconnecting, now, rc, call, last_websocket_ping>>

\* get_network_information(): GET /networks/{network_id} goes out for a network
\* not asked yet, with the session id of that network in the header
InfoRequest(n) ==
    /\ ini.pc = "info_request"
    /\ n \in ini.todo
    /\ header_session' = session_ids[n]
    /\ ini' = [ini EXCEPT !.pc = "info_wait", !.at = n, !.session = session_ids[n]]
    /\ RequestPing
    /\ UNCHANGED <<user_password, network_password, network_ids, session_ids, cs>>
    /\ UNCHANGED <<unit, registry, gus, iuc>>
    /\ UNCHANGED <<reconnecting, now, rc, call>>

\* the answer o to that GET. Unauthorized puts the network on the failed list;
\* TimeoutError leaves get_network_information() and is caught by initialize();
\* after the last network the failed ones are "removed" and initialize() builds
\* one Units per network of the result
InfoAnswer(o) ==
    /\ ini.pc = "info_wait"
    /\ LET n == ini.at
           result == IF o = "ok" THEN ini.result \cup {n} ELSE ini.result
           failed == IF o = "Unauthorized" THEN ini.failed \cup {n} ELSE ini.failed
           todo == ini.todo \ {n}
           ids == RemoveFailed(network_ids, failed)
           sids == [m \in Networks |-> IF m \in ids THEN session_ids[m] ELSE None]
       IN IF o = "TimeoutError"
          THEN /\ ini' = [ini EXCEPT !.pc = "info_sleep"]
               /\ UNCHANGED <<network_ids, session_ids, units>>
          ELSE IF todo # {}
          THEN /\ ini' = [ini EXCEPT !.pc = "info_request", !.todo = todo,
                                     !.result = result, !.failed = failed]
               /\ UNCHANGED <<network_ids, session_ids, units>>
          ELSE IF result = {}
          THEN /\ ini' = [ini EXCEPT !.pc = "raised", !.todo = todo,
                                     !.failed = failed,
                                     !.error = "AiocasambiException"]
               /\ UNCHANGED <<network_ids, session_ids, units>>
          ELSE /\ network_ids' = ids
               /\ session_ids' = sids
               /\ units' = [m \in Networks |->
                              IF m \in result THEN ListedUnits ELSE units[m]]
               /\ ini' = [ini EXCEPT !.pc = "state_request", !.todo = ids,
                                     !.result = result, !.failed = failed, !.j = 0]
    /\ UNCHANGED <<user_password, network_password, header_session, cs>>
    /\ UNCHANGED <<websocket, wire_map, tasks, callback, wires, last>>
    /\ UNCHANGED <<unit, registry, gus, iuc>>
    /\ UNCHANGED <<reconnecting, now, rc, call, last_websocket_ping>>

\* initialize(): sleep(network_timeout) is over; get_network_information() is
\* called again from the start, or the retries are used up
InfoSleepOver ==
    /\ ini.pc = "info_sleep"
    /\ ini' = IF RetriesLeft(ini.i + 1)
              THEN [ini EXCEPT !.pc = "info_request", !.i = @ + 1, !.at = None,
                               !.todo = network_ids, !.result = {}, !.failed = {}]
              ELSE [ini EXCEPT !.pc = "raised", !.i = @ + 1,
                               !.error = "AiocasambiException"]
    /\ UNCHANGED sessionVars
    /\ UNCHANGED wsVars
    /\ UNCHANGED <<unit, registry, gus, iuc>>
    /\ UNCHANGED <<reconnecting, now, rc, call, last_websocket_ping>>

\* get_network_state() is called on its own (the periodic poll): it raises when
\* no network id is known, else it asks the networks one after the other
GetNetworkState ==
    /\ ini.pc \in {"idle", "returned", "raised"}
    /\ ini' = IF NetworkIdsNotSet(network_ids)
              THEN [NoIni EXCEPT !.pc = "raised", !.op = "get_network_state",
                                 !.error = "AiocasambiException"]
              ELSE [NoIni EXCEPT !.pc = "state_request", !.op = "get_network_state",
                                 !.todo = network_ids]
    /\ UNCHANGED sessionVars
    /\ UNCHANGED wsVars
    /\ UNCHANGED <<unit, registry, gus, iuc>>
    /\ UNCHANGED <<reconnecting, now, rc, call, last_websocket_ping>>

\* get_network_state(): GET /networks/{network_id}/state goes out for the next
\* network of _network_ids
StateRequest(n) ==
    /\ ini.pc = "state_request"
    /\ n \in ini.todo
    /\ header_session' = session_ids[n]
    /\ ini' = [ini EXCEPT !.pc = "state_wait", !.at = n, !.session = session_ids[n]]
    /\ RequestPing
    /\ UNCHANGED <<user_password, network_password, network_ids, session_ids, cs>>
    /\ UNCHANGED <<unit, registry, gus, iuc>>
    /\ UNCHANGED <<reconnecting, now, rc, call>>

\* the answer o to that GET: data goes to self.units[network_id] (KeyError when
\* initialize() built no Units for the network) and self.callback is called
\* with the unit ids (TypeError when it is None); Unauthorized skips the network;
\* TimeoutError is retried for the same network after the sleep. After the last
\* network initialize() goes on with init_unit_state_controls(network_id) for
\* every id of _network_ids, which reads self.units[network_id] first.
StateAnswer(o) ==
    /\ ini.pc = "state_wait"
    /\ LET n == ini.at
           todo == ini.todo \ {n}
           sresult == IF o = "ok" THEN ini.sresult \cup {n} ELSE ini.sresult
           sfailed == IF o = "Unauthorized" THEN ini.sfailed \cup {n} ELSE ini.sfailed
           ids == RemoveFailed(network_ids, sfailed)
           notified == IF o = "ok" THEN ini.notified \cup {n} ELSE ini.notified
       IN ini' =
            IF o = "TimeoutError"
            THEN IF RetriesLeft(ini.j + 1)
                 THEN [ini EXCEPT !.pc = "state_sleep", !.j = @ + 1]
                 ELSE [ini EXCEPT !.pc = "raised", !.j = @ + 1,
                                  !.error = "AiocasambiException"]
            ELSE IF o = "ok" /\ ~units[n].made
            THEN [ini EXCEPT !.pc = "raised", !.error = "KeyError"]
            ELSE IF o = "ok" /\ ~callback
            THEN [ini EXCEPT !.pc = "raised", !.error = "TypeError"]
            ELSE IF todo # {}
            THEN [ini EXCEPT !.pc = "state_request", !.todo = todo, !.j = 0,
                             !.sresult = sresult, !.sfailed = sfailed,
                             !.notified = notified]
            ELSE IF sresult = {}
            THEN [ini EXCEPT !.pc = "raised", !.todo = todo, !.sfailed = sfailed,
                             !.error = "AiocasambiException"]
            ELSE IF ini.op = "initialize" /\ \E m \in ids : ~units[m].made
            THEN [ini EXCEPT !.pc = "raised", !.todo = todo, !.sresult = sresult,
                             !.sfailed = sfailed, !.error = "KeyError",
                             !.notified = notified]
            ELSE [ini EXCEPT !.pc = "returned", !.todo = todo, !.sresult = sresult,
                             !.sfailed = sfailed, !.notified = notified]
    /\ UNCHANGED sessionVars
    /\ UNCHANGED wsVars
    /\ UNCHANGED <<unit, registry, gus, iuc>>
    /\ UNCHANGED <<reconnecting, now, rc, call, last_websocket_ping>>

\* get_network_state(): sleep(network_timeout) is over, the GET is made again
StateSleepOver ==
    /\ ini.pc = "state_sleep"
    /\ ini' = [ini EXCEPT !.pc = "state_wait", !.session = header_session]
    /\ RequestPing
    /\ UNCHANGED sessionVars
    /\ UNCHANGED <<unit, registry, gus, iuc>>
    /\ UNCHANGED <<reconnecting, now, rc, call>>

\* ------------------------------------------------------------------ get_unit_state
NoGus == [pc |-> "idle", net |-> None, unit |-> 0, requests |-> 0,
          session |-> None, error |-> None]
NoIuc == [pc |-> "idle", net |-> None, todo |-> << >>, at |-> 0, i |-> 0,
          done |-> {}, requests |-> {}]

\* get_unit_state(unit_id, network_id) is called: it raises when no network id
\* is known and when _session_ids has no entry for the network; else it sets
\* the session header and makes its GET through request()
GetUnitState(u, n) ==
    /\ gus.pc \in {"idle", "returned", "raised"}
    /\ IF NetworkIdsNotSet(network_ids)
       THEN /\ gus' = [NoGus EXCEPT !.pc = "raised", !.net = n, !.unit = u,
                                    !.error = "AiocasambiException"]
            /\ UNCHANGED <<header_session, last_websocket_ping>>
            /\ UNCHANGED wsVars
       ELSE IF session_ids[n] = None
       THEN /\ gus' = [NoGus EXCEPT !.pc = "raised", !.net = n, !.unit = u,
                                    !.error = "KeyError"]
            /\ UNCHANGED <<header_session, last_websocket_ping>>
            /\ UNCHANGED wsVars
       ELSE /\ header_session' = session_ids[n]
            /\ gus' = [NoGus EXCEPT !.pc = "wait", !.net = n, !.unit = u,
                                    !.requests = 1, !.session = session_ids[n]]
            /\ RequestPing
    /\ UNCHANGED <<user_password, network_password, network_ids, session_ids, cs>>
    /\ UNCHANGED <<reconnecting, now, rc, call, ini, iuc, unit, registry>>

\* what the GET of get_unit_state can end with
UnitStateOutcomes == {"ok", "Unauthorized", "AiocasambiException", "TimeoutError"}

\* the answer o to that GET: the data is returned, an error is raised on
UnitStateAnswer(o) ==
    /\ gus.pc = "wait"
    /\ gus' = IF o = "ok" THEN [gus EXCEPT !.pc = "returned"]
              ELSE [gus EXCEPT !.pc = "raised", !.error = o]
    /\ UNCHANGED sessionVars
    /\ UNCHANGED wsVars
    /\ UNCHANGED <<reconnecting, now, rc, call, ini, iuc, unit, registry,
                   last_websocket_ping>>

\* ------------------------------------------------------------------ init_unit_state_controls
\* get_units_unique_ids(): the units of the collection in the order of the map
UniqueIds(U) == SelectSeq([u \in UnitIds |-> u], LAMBDA u : U.units[u].known)

\* what one get_unit_state_controls can end with: a list of controls, an empty
\* list, or an error raised by get_unit_state
ControlsOutcomes == {"controls", "empty", "TimeoutError", "Unauthorized"}

\* "if not data: ... return": the data of a unit that ends the whole call
NoData(o) == o \in {"empty", "TimeoutError"}

\* the GET of get_unit_state for the next unit of todo goes out
ControlsGet(c, n) ==
    /\ header_session' = session_ids[n]
    /\ iuc' = [c EXCEPT !.pc = "wait", !.at = Head(c.todo),
                        !.requests = @ \cup {Head(c.todo)}]
    /\ RequestPing

\* init_unit_state_controls(network_id) is called: KeyError without a Units for
\* the network, else the loop over the unique ids begins with its first GET
InitUnitStateControls(n) ==
    /\ iuc.pc \in {"idle", "returned", "raised"}
    /\ n \in network_ids
    /\ LET c == [NoIuc EXCEPT !.net = n, !.todo = UniqueIds(units[n])]
       IN IF ~units[n].made
          THEN /\ iuc' = [c EXCEPT !.pc = "raised", !.todo = << >>]
               /\ UNCHANGED <<header_session, last_websocket_ping>>
               /\ UNCHANGED wsVars
          ELSE IF c.todo = << >>
          THEN /\ iuc' = [c EXCEPT !.pc = "returned"]
               /\ UNCHANGED <<header_session, last_websocket_ping>>
               /\ UNCHANGED wsVars
          ELSE ControlsGet(c, n)
    /\ UNCHANGED <<user_password, network_password, network_ids, session_ids, cs>>
    /\ UNCHANGED <<reconnecting, now, rc, call, ini, gus, unit, registry>>

\* the answer o for the unit asked: controls are stored with set_controls and
\* the loop goes to the next unit; TimeoutError is followed by the sleep while
\* passes of "for i in range(0, MAX_RETRIES)" are left; another error is raised
\* on; when the loop over i has ended, "if not data: return" leaves the call
ControlsAnswer(o) ==
    /\ iuc.pc = "wait"
    /\ LET timeout == o = "TimeoutError"
           rest == [iuc EXCEPT !.todo = Tail(@), !.i = 0,
                               !.done = IF o = "controls" THEN @ \cup {iuc.at} ELSE @]
       IN IF timeout /\ RetriesLeft(iuc.i + 1)
          THEN /\ iuc' = [iuc EXCEPT !.pc = "sleep", !.i = @ + 1]
               /\ UNCHANGED <<header_session, last_websocket_ping>>
               /\ UNCHANGED wsVars
          ELSE IF o = "Unauthorized"
          THEN /\ iuc' = [iuc EXCEPT !.pc = "raised"]
               /\ UNCHANGED <<header_session, last_websocket_ping>>
               /\ UNCHANGED wsVars
          ELSE IF NoData(o) \/ rest.todo = << >>
          THEN /\ iuc' = [rest EXCEPT !.pc = "returned",
                                      !.i = IF timeout THEN iuc.i + 1 ELSE 0]
               /\ UNCHANGED <<header_session, last_websocket_ping>>
               /\ UNCHANGED wsVars
          ELSE ControlsGet(rest, iuc.net)
    /\ UNCHANGED <<user_password, network_password, network_ids, session_ids, cs>>
    /\ UNCHANGED <<reconnecting, now, rc, call, ini, gus, unit, registry>>

\* sleep(network_timeout) is over: get_unit_state is called again for the unit
ControlsSleepOver ==
    /\ iuc.pc = "sleep"
    /\ header_session' = session_ids[iuc.net]
    /\ iuc' = [iuc EXCEPT !.pc = "wait"]
    /\ RequestPing
    /\ UNCHANGED <<user_password, network_password, network_ids, session_ids, cs>>
    /\ UNCHANGED <<reconnecting, now, rc, call, ini, gus, unit, registry>>

\* ------------------------------------------------------------------ specifications
\* Controller.__init__
InitController ==
    /\ header_session = None
    /\ network_ids = {}
    /\ session_ids = NoSessions
    /\ websocket = [n \in Networks |-> NoConn]
    /\ wire_map = [w \in WireIds |-> None]
    /\ tasks = NoTasks
    /\ units = [n \in Networks |-> NoUnits]
    /\ wires = [n \in Networks |-> 0]
    /\ callback = TRUE
    /\ last = NoLast
    /\ reconnecting = FALSE
    /\ last_websocket_ping = 0
    /\ now = 0
    /\ rc = NoRc
    /\ call = NoCall
    /\ ini = NoIni
    /\ unit = NewUnit(0, 0)
    /\ registry = NoRegistry
    /\ gus = NoGus
    /\ iuc = NoIuc

\* a controller as constructed, with any combination of the two passwords
InitSession ==
    /\ user_password \in BOOLEAN
    /\ network_password \in BOOLEAN
    /\ cs = CsIdle
    /\ InitController

NextSession ==
    \/ CreateSession
    \/ \E nets \in NonEmptyNets : \E own \in SUBSET nets : \E g \in Logins :
          UserLoginOk(nets, own, g)
    \/ \E nets \in NonEmptyNets : \E g \in Logins : NetworkLoginOk(nets, g)
    \/ \E o \in LoginOutcomes : LoginRaises(o)
    \/ BackoffOver

SpecSession == InitSession /\ [][NextSession]_vars

\* the controller after create_session() (network password) and initialize()
\* returned for the networks nets: sessions known, one Units per network
Initialized(nets) ==
    /\ user_password = FALSE
    /\ network_password = TRUE
    /\ header_session = None
    /\ network_ids = nets
    /\ session_ids = [n \in Networks |-> IF n \in nets THEN NetSession[n] ELSE None]
    /\ cs = [CsIdle EXCEPT !.pc = "returned", !.attempts = 1, !.logged = {"network"},
                           !.answer = "ok"]
    /\ websocket = [n \in Networks |-> NoConn]
    /\ wire_map = [w \in WireIds |-> None]
    /\ tasks = NoTasks
    /\ units = [n \in Networks |-> IF n \in nets THEN ListedUnits ELSE NoUnits]
    /\ wires = [n \in Networks |-> 0]
    /\ callback = TRUE
    /\ last = NoLast
    /\ reconnecting = FALSE
    /\ last_websocket_ping = 0
    /\ now = 0
    /\ rc = NoRc
    /\ call = NoCall
    /\ ini = NoIni
    /\ unit = NewUnit(0, 0)
    /\ registry = ProcessUnits("a ")
    /\ gus = NoGus
    /\ iuc = NoIuc

\* one network: the life of one realtime connection
LifeFrames == {UnitChanged(1, 100, TRUE)}
Init == Initialized({"A"})

Next ==
    \/ \E n \in Networks : \E r1, r2 \in WireIds : StartWebsocket(n, r1, r2)
    \/ \E n \in Networks : Start(n)
    \/ \E n \in Networks : Stop(n)
    \/ \E n \in Networks : \E o \in SendOutcomes : SendMessage(n, o)
    \/ \E n \in Networks : \E t \in TaskIds :
          \E o \in {"ok"} \cup ConnectExceptions : WsConnect(n, t, o)
    \/ \E n \in Networks : \E t \in TaskIds :
          \E o \in {"ok"} \cup OpenExceptions : WsOpen(n, t, o)
    \/ \E n \in Networks : \E t \in TaskIds :
          \E m \in Messages(LifeFrames) : WsReceive(n, t, m)
    \/ \E n \in Networks : \E t \in TaskIds :
          \E e \in ReceiveExceptions : WsReceiveRaises(n, t, e)
    \/ \E n \in Networks : \E t \in TaskIds : SleepOver(n, t)

Spec == Init /\ [][Next]_vars

\* two networks: wire ids and the routing of inbound frames
RouteFrames == {UnitChanged(1, v, TRUE) : v \in DimValues}
InitRoute == Initialized(Networks)

NextRoute ==
    \/ \E n \in Networks : \E r1, r2 \in WireIds : StartWebsocket(n, r1, r2)
    \/ \E n \in Networks : \E t \in TaskIds : WsConnect(n, t, "ok")
    \/ \E n \in Networks : \E t \in TaskIds : WsOpen(n, t, "ok")
    \/ \E n \in Networks : \E t \in TaskIds :
          \E m \in Messages(RouteFrames) : WsReceive(n, t, m)
    \/ \E n \in Networks : \E t \in TaskIds : SleepOver(n, t)

SpecRoute == InitRoute /\ [][NextRoute]_vars

\* two networks: frames handed to message_handler
PeerFrames ==
    {PeerChanged(b) : b \in BOOLEAN}
        \cup {UnitChanged(i, v, o) : i \in UnitIds, v \in DimValues, o \in BOOLEAN}
InitPeer == Initialized(Networks)

NextPeer ==
    \/ \E n \in Networks : \E r1, r2 \in WireIds : StartWebsocket(n, r1, r2)
    \/ \E m \in PeerFrames : \E w \in WireIds : MessageHandled(m, w)

SpecPeer == InitPeer /\ [][NextPeer]_vars

\* create_session() returned (network password) for the networks nets;
\* initialize() has not been called yet
InitInitialize ==
    /\ user_password = FALSE
    /\ network_password = TRUE
    /\ header_session = None
    /\ \E nets \in NonEmptyNets :
          /\ network_ids = nets
          /\ session_ids = [n \in Networks |-> IF n \in nets THEN NetSession[n] ELSE None]
    /\ cs = [CsIdle EXCEPT !.pc = "returned", !.attempts = 1, !.logged = {"network"},
                           !.answer = "ok"]
    /\ websocket = [n \in Networks |-> NoConn]
    /\ wire_map = [w \in WireIds |-> None]
    /\ tasks = NoTasks
    /\ units = [n \in Networks |-> NoUnits]
    /\ wires = [n \in Networks |-> 0]
    /\ callback = TRUE
    /\ last = NoLast
    /\ reconnecting = FALSE
    /\ last_websocket_ping = 0
    /\ now = 0
    /\ rc = NoRc
    /\ call = NoCall
    /\ ini = NoIni
    /\ unit = NewUnit(0, 0)
    /\ registry = NoRegistry
    /\ gus = NoGus
    /\ iuc = NoIuc

NextInitialize ==
    \/ Initialize
    \/ \E n \in Networks : InfoRequest(n)
    \/ \E o \in FetchOutcomes : InfoAnswer(o)
    \/ InfoSleepOver
    \/ \E n \in Networks : StateRequest(n)
    \/ \E o \in FetchOutcomes : StateAnswer(o)
    \/ StateSleepOver

SpecInitialize == InitInitialize /\ [][NextInitialize]_vars

\* the REST operations on a controller with sessions for any set of networks,
\* none included, and with or without a callback
InitOps ==
    /\ user_password = FALSE
    /\ network_password = TRUE
    /\ header_session = None
    /\ \E nets \in SUBSET Networks :
          /\ network_ids = nets
          /\ session_ids = [n \in Networks |-> IF n \in nets THEN NetSession[n] ELSE None]
          /\ units = [n \in Networks |-> IF n \in nets THEN ListedUnits ELSE NoUnits]
          /\ cs = IF nets = {} THEN CsIdle
                  ELSE [CsIdle EXCEPT !.pc = "returned", !.attempts = 1,
                                      !.logged = {"network"}, !.answer = "ok"]
    /\ websocket = [n \in Networks |-> NoConn]
    /\ wire_map = [w \in WireIds |-> None]
    /\ tasks = NoTasks
    /\ wires = [n \in Networks |-> 0]
    /\ callback \in BOOLEAN
    /\ last = NoLast
    /\ reconnecting = FALSE
    /\ last_websocket_ping = 0
    /\ now = 0
    /\ rc = NoRc
    /\ call = NoCall
    /\ ini = NoIni
    /\ gus = NoGus
    /\ iuc = NoIuc
    /\ unit = NewUnit(0, 0)
    /\ registry = NoRegistry

NextOps ==
    \/ Initialize
    \/ GetNetworkState
    \/ \E n \in Networks : InfoRequest(n)
    \/ \E o \in FetchOutcomes : InfoAnswer(o)
    \/ InfoSleepOver
    \/ \E n \in Networks : StateRequest(n)
    \/ \E o \in FetchOutcomes : StateAnswer(o)
    \/ StateSleepOver
    \/ \E u \in UnitIds : \E n \in Networks : GetUnitState(u, n)
    \/ \E o \in UnitStateOutcomes : UnitStateAnswer(o)

SpecOps == InitOps /\ [][NextOps]_vars

\* init_unit_state_controls for the two units of each network
InitControls == Initialized(Networks)

NextControls ==
    \/ \E n \in Networks : InitUnitStateControls(n)
    \/ \E o \in ControlsOutcomes : ControlsAnswer(o)
    \/ ControlsSleepOver

SpecControls == InitControls /\ [][NextControls]_vars

\* the controller after initialize() and start_websockets() for both networks:
\* start_websocket ran for A and then for B, each with its two draws
Started(a1, a2, b1, b2) ==
    LET a == AllocateWireId([w \in WireIds |-> None], "A", a1, a2)
        b == AllocateWireId(a.map, "B", b1, b2)
        wire == [n \in Networks |-> IF n = "A" THEN a.wire_id ELSE b.wire_id]
    IN /\ wire_map = b.map
       /\ websocket = [n \in Networks |->
                         [NewClient(wire[n], NetSession[n]) EXCEPT
                             !.state = STATE_STARTING]]
       /\ wires = wire
       /\ tasks = [n \in Networks |->
                     [t \in TaskIds |-> IF t = 1 THEN "connect" ELSE "none"]]

InitStarted ==
    /\ user_password = FALSE
    /\ network_password = TRUE
    /\ header_session = None
    /\ network_ids = Networks
    /\ session_ids = [n \in Networks |-> NetSession[n]]
    /\ cs = [CsIdle EXCEPT !.pc = "returned", !.attempts = 1, !.logged = {"network"},
                           !.answer = "ok"]
    /\ \E a1, a2, b1, b2 \in WireIds : Started(a1, a2, b1, b2)
    /\ units = [n \in Networks |-> ListedUnits]
    /\ callback = TRUE
    /\ last = NoLast
    /\ reconnecting = FALSE
    /\ last_websocket_ping = 0
    /\ now = 0
    /\ rc = NoRc
    /\ call = NoCall
    /\ ini = NoIni
    /\ unit = NewUnit(0, 0)
    /\ registry = NoRegistry
    /\ gus = NoGus
    /\ iuc = NoIuc

\* keep-alive and outbound messages: the logins of a reconnect are answered
\* with data or with 429
NextKeep ==
    \/ \E n \in Networks : \E t \in TaskIds : WsConnect(n, t, "ok")
    \/ \E n \in Networks : WsSendMessage(n)
    \/ \E o \in PingOutcomes : WsSendStep(o)
    \/ CreateSession
    \/ NetworkLoginOk(Networks, "again")
    \/ LoginRaises("QoutaLimitsExceeded")
    \/ ReconnectResume
    \/ ReconnectSleepOver
    \/ Tick

SpecKeep == InitStarted /\ [][NextKeep]_vars

\* the reconnect procedure with every answer a login can get
NextReconnect ==
    \/ \E n \in Networks : \E t \in TaskIds : WsConnect(n, t, "ok")
    \/ CheckConnection
    \/ CreateSession
    \/ \E nets \in NonEmptyNets : NetworkLoginOk(nets, "again")
    \/ \E o \in LoginOutcomes : LoginRaises(o)
    \/ BackoffOver
    \/ ReconnectResume
    \/ ReconnectSleepOver

SpecReconnect == InitStarted /\ [][NextReconnect]_vars

\* the connection loops left to themselves (no start(), no stop()) while
\* reconnect() renews the session ids; the sleep of a loop ends, and the
\* transport accepts a connection again and again
NextRetry ==
    \/ \E n \in Networks : \E t \in TaskIds :
          \E o \in {"ok"} \cup ConnectExceptions : WsConnect(n, t, o)
    \/ \E n \in Networks : \E t \in TaskIds :
          \E o \in {"ok"} \cup OpenExceptions : WsOpen(n, t, o)
    \/ \E n \in Networks : \E t \in TaskIds :
          \E e \in ReceiveExceptions : WsReceiveRaises(n, t, e)
    \/ \E n \in Networks : \E t \in TaskIds : SleepOver(n, t)
    \/ CheckConnection
    \/ CreateSession
    \/ NetworkLoginOk(Networks, "again")
    \/ ReconnectResume

FairRetry ==
    \A n \in Networks :
        /\ WF_vars(\E t \in TaskIds : SleepOver(n, t))
        /\ SF_vars(\E t \in TaskIds : WsConnect(n, t, "ok"))

\* both connections started, A on wire 1 and B on wire 2
InitRetry == InitStarted /\ wires = [n \in Networks |-> IF n = "A" THEN 1 ELSE 2]

SpecRetry == InitRetry /\ [][NextRetry]_vars /\ FairRetry

\* request() while the connections come up: a ping fails (always, without a
\* socket) or succeeds, a failed one calls reconnect(), whose logins are
\* answered with 429 or, in the end, with data
ChainStatuses == {200, 404, 502}
NextChain ==
    \/ \E n \in Networks : \E t \in TaskIds : WsConnect(n, t, "ok")
    \/ RequestBegin
    \/ \E o \in PingOutcomes : WsSendStep(o)
    \/ \E st \in ChainStatuses : HttpAnswer(st, "application/json")
    \/ CreateSession
    \/ NetworkLoginOk(Networks, "again")
    \/ LoginRaises("QoutaLimitsExceeded")
    \/ ReconnectResume
    \/ ReconnectSleepOver
    \/ Tick

FairChain ==
    /\ WF_vars(\E o \in PingOutcomes : WsSendStep(o))
    /\ WF_vars(\E st \in ChainStatuses : HttpAnswer(st, "application/json"))
    /\ WF_vars(CreateSession)
    /\ SF_vars(NetworkLoginOk(Networks, "again"))
    /\ WF_vars(ReconnectResume)
    /\ WF_vars(ReconnectSleepOver)

SpecChain == InitRetry /\ [][NextChain]_vars /\ FairChain

\* start_websocket and start_websockets called again and again
InitRestart == Initialized(Networks)

NextRestart ==
    \/ \E n \in Networks : \E r1, r2 \in WireIds : StartWebsocket(n, r1, r2)
    \/ \E n \in Networks : \E r1, r2 \in WireIds : RestartWebsocket(n, r1, r2)

SpecRestart == InitRestart /\ [][NextRestart]_vars

\* one unit of network "A" with both connections running
CctBounds == {k * CCT_STEP : k \in 0 .. MaxCctSteps}
\* targets next to the multiples of CCT_STEP and next to the middle between them
Targets == {t \in 0 .. (MaxCctSteps + 1) * CCT_STEP :
               t % CCT_STEP \in {0, 1, 24, 25, 26, 49}}
Running(u) ==
    /\ user_password = FALSE
    /\ network_password = TRUE
    /\ header_session = None
    /\ network_ids = Networks
    /\ session_ids = [n \in Networks |-> NetSession[n]]
    /\ cs = [CsIdle EXCEPT !.pc = "returned", !.attempts = 1, !.logged = {"network"},
                           !.answer = "ok"]
    /\ wire_map = [w \in WireIds |-> IF w = 1 THEN "A" ELSE IF w = 2 THEN "B" ELSE None]
    /\ wires = [n \in Networks |-> IF n = "A" THEN 1 ELSE 2]
    /\ websocket = [n \in Networks |->
                      [NewClient(wires[n], NetSession[n]) EXCEPT
                          !.state = STATE_RUNNING, !.web_sock = TRUE]]
    /\ tasks = [n \in Networks |-> [t \in TaskIds |-> IF t = 1 THEN "recv" ELSE "none"]]
    /\ units = [n \in Networks |-> ListedUnits]
    /\ callback = TRUE
    /\ last = NoLast
    /\ reconnecting = FALSE
    /\ last_websocket_ping = 0
    /\ now = 0
    /\ rc = NoRc
    /\ call = NoCall
    /\ ini = NoIni
    /\ unit = u
    /\ registry = ProcessUnits("a ")
    /\ gus = NoGus
    /\ iuc = NoIuc

\* the setters of the unit, set_unit_value, set_unit_distribution and the sends
\* of the calls they make
InitUnit == Running(NewUnit(0, 0))

NextUnit ==
    \/ \E v \in Levels : SetValue(v)
    \/ \E s \in {UNIT_STATE_OFF, UNIT_STATE_ON} : SetState(s)
    \/ \E v \in Levels : SetUnitValue(v)
    \/ \E d \in Levels : SetUnitDistribution(d)
    \/ \E v \in Levels : RegistrySetValue(1, v)
    \/ WsSendStep("ok")
    \/ Tick

SpecUnit == InitUnit /\ [][NextUnit]_vars

\* the value and distribution setters of a unit built with any controls
InitGetter == \E c \in UnitControls : Running([NewUnit(0, 0) EXCEPT !.controls = c])

NextGetter ==
    \/ \E v \in Levels : SetValue(v)
    \/ \E d \in Levels : SetDistribution(d)

SpecGetter == InitGetter /\ [][NextGetter]_vars

\* request() with every status, connections running
InitRequest == Running(NewUnit(0, 0))

NextRequest ==
    \/ \E st \in Statuses : \E ct \in ContentTypes : Request(st, ct)
    \/ RequestRaises("ClientError")
    \/ Tick

SpecRequest == InitRequest /\ [][NextRequest]_vars

\* set_unit_color_temperature for every advertised range and target
InitColor == \E lo, hi \in CctBounds : lo <= hi /\ Running(NewUnit(lo, hi))

NextColor ==
    \/ \E t \in Targets : SetUnitColorTemperature(t)
    \/ WsSendStep("ok")
    \/ Tick

SpecColor == InitColor /\ [][NextColor]_vars

\* the unit collection of one network: polled states and push frames
InitRegistry == Initialized({"A"})

NextRegistry ==
    \/ \E data \in Snapshots : NetworkState(data)
    \/ \E msg \in PushFrames : UnitEvent(msg)

SpecRegistry == InitRegistry /\ [][NextRegistry]_vars

\* ------------------------------------------------------------------ claims
StateSignals(sig) == {i \in DOMAIN sig : sig[i].signal = SIGNAL_CONNECTION_STATE}
Made == {n \in Networks : websocket[n].made}

\* C1: after start_websocket ran for the known networks, the wire ids held by
\* the connections of the table are pairwise distinct.
C1_WireIdsDistinct ==
    \A n \in Made : \A m \in Made :
        n # m => websocket[n].wire_id # websocket[m].wire_id

\* C2: for every network N with a connection in the table, the reverse map
\* sends the wire id held by N's connection to N.
C2_ReverseMapPointsBack ==
    \A n \in Made : wire_map[websocket[n].wire_id] = n

\* C3: a data frame received on a connection is dispatched with the payload that
\* connection received, to the unit collection of that connection's network, and
\* changes no unit of another network.
C3_NoCrossDelivery ==
    (last.op = "ws_receive" /\ last.rx # NoFrame)
        => /\ last.to = last.net
           /\ last.used = last.rx

\* C4: stopped is terminal: once the state is stopped it stays stopped, whatever
\* the loop task or send_message does afterwards (a new start() call aside).
C4_StoppedIsTerminal ==
    [][\A n \in Made :
          (websocket[n].state = STATE_STOPPED /\ last'.op # "start")
              => websocket'[n].state = STATE_STOPPED]_vars

\* C5: when the receive loop exits on a remote close or an error frame and the
\* state is not stopped, the state becomes disconnected and a connection-state
\* signal is emitted.
C5_LoopExitDisconnects ==
    (last.op = "ws_receive" /\ last.ret = "break" /\ last.was # STATE_STOPPED)
        => /\ websocket[last.net].state = STATE_DISCONNECTED
           /\ StateSignals(last.sig) # {}

\* C6: an exception raised in the loop task while the state is stopped leaves
\* the state stopped and emits no connection-state signal.
C6_ExceptionKeepsStopped ==
    (last.ret \in {"caught", "raised"} /\ last.was = STATE_STOPPED)
        => /\ websocket[last.net].state = STATE_STOPPED
           /\ StateSignals(last.sig) = {}
           /\ last.cb = << >>

C6_Witness ==
    /\ last.ret = "caught"
    /\ last.was = STATE_STOPPED
    /\ last.outcome \in LoopExceptions

\* C7: start() on a running connection changes nothing (state, signal, tasks);
\* in any other state it sets the state to starting, emits the state signal and
\* schedules one loop task that has not opened the socket yet.
C7_StartOnlyUnlessRunning ==
    [][last'.op = "start" =>
          LET n == last'.net IN
          IF websocket[n].state = STATE_RUNNING
          THEN /\ websocket' = websocket
               /\ tasks' = tasks
               /\ last'.sig = << >>
               /\ last'.cb = << >>
          ELSE /\ websocket' = [websocket EXCEPT ![n].state = STATE_STARTING]
               /\ \E t \in TaskIds :
                     /\ tasks[n][t] = "none"
                     /\ tasks' = [tasks EXCEPT ![n][t] = "connect"]
               /\ last'.sig = <<Signal(SIGNAL_CONNECTION_STATE, websocket[n].wire_id)>>
      ]_vars

C7_Witness ==
    /\ last.op = "start"
    /\ last.was = STATE_RUNNING
    /\ websocket[last.net].state = STATE_RUNNING
    /\ Alive(last.net) # {}

\* C8: send_message returns False and leaves the state disconnected when there
\* is no socket or the write fails; it returns True and leaves the state as it
\* was when the write succeeds; it never raises.
C8_SendMessageResult ==
    last.op = "send_message" =>
        IF last.outcome = "ok"
        THEN /\ last.ret = "True"
             /\ websocket[last.net].state = last.was
             /\ last.sig = << >>
        ELSE /\ last.ret = "False"
             /\ websocket[last.net].state = STATE_DISCONNECTED

C8_Witness ==
    /\ last.op = "send_message"
    /\ last.outcome = "no socket"
    /\ last.ret = "False"
    /\ last.was = STATE_STARTING

\* C9: create_session retries only on timeout: with a password supplied, when
\* every login times out it makes exactly MAX_RETRIES attempts, sleeps after
\* each, and raises AiocasambiException; it returns at the first success, and
\* any other error ends it at once.
C9_RetryCeiling ==
    /\ cs.attempts <= MAX_RETRIES
    /\ cs.sleeps = cs.timeouts
    /\ (cs.pc = "raised" /\ cs.error = "AiocasambiException" /\ cs.attempts > 0)
          => /\ cs.attempts = MAX_RETRIES
             /\ cs.timeouts = MAX_RETRIES
             /\ cs.sleeps = MAX_RETRIES
    /\ cs.pc = "returned" => cs.attempts = cs.timeouts + 1
    /\ (cs.pc = "raised" /\ cs.error # "AiocasambiException")
          => cs.attempts = cs.timeouts + 1

C9_Witness ==
    /\ cs.pc = "raised"
    /\ cs.error = "AiocasambiException"
    /\ cs.attempts = MAX_RETRIES
    /\ cs.sleeps = MAX_RETRIES

\* C10: with both passwords supplied, a create_session that returned has done
\* the user login and the network login.
C10_BothLogins ==
    (cs.pc = "returned" /\ user_password /\ network_password)
        => cs.logged = {"user", "network"}

\* C11: an Unauthorized answer to a login request makes create_session raise
\* Unauthorized in that very step: no backoff sleep is started, no further
\* attempt is made, and the network ids and the session ids stay as they were.
C11_UnauthorizedNotRetried ==
    [][(cs.pc \in {"user_request", "network_request"} /\ cs'.answer = "Unauthorized")
          => /\ cs'.pc = "raised"
             /\ cs'.error = "Unauthorized"
             /\ cs'.sleeps = cs.sleeps
             /\ cs'.attempts = cs.attempts
             /\ network_ids' = network_ids
             /\ session_ids' = session_ids
      ]_vars

C11_Witness ==
    /\ cs.pc = "raised"
    /\ cs.answer = "Unauthorized"
    /\ cs.error = "Unauthorized"
    /\ cs.timeouts > 0
    /\ \A n \in Networks : session_ids[n] # None

\* C12: a rate-limit (429) or connection-refused error of a login request is
\* followed by the backoff sleep of create_session (and the next attempt), not
\* raised to the caller.
C12_TransientRetried ==
    cs.answer \in {"QoutaLimitsExceeded", "ClientConnectorError"} => cs.pc = "sleep"

\* C13: when get_network_information() returned with some networks rejected
\* (Unauthorized) and at least one answered, the rejected networks are gone from
\* the network ids and from the session-id map and the others are kept;
\* initialize() then does not fail on a rejected network and ends with one
\* collection for each surviving network; when every network is rejected,
\* AiocasambiException is raised.
C13_PartialFailure ==
    /\ (ini.pc \in {"state_request", "state_wait", "state_sleep", "returned"}
            /\ ini.failed # {})
          => /\ ini.failed \cap network_ids = {}
             /\ \A n \in ini.failed : session_ids[n] = None
             /\ ini.result \subseteq network_ids
    /\ (ini.pc = "raised" /\ ini.result # {} /\ ini.failed # {})
          => ini.error # "KeyError"
    /\ ini.pc = "returned"
          => \A n \in Networks : units[n].made <=> n \in network_ids
    /\ (ini.todo = {} /\ ini.result = {} /\ ini.failed # {})
          => (ini.pc = "raised" /\ ini.error = "AiocasambiException")

\* C14: at most one reconnect loop is active at any time, and a reconnect()
\* made while another one is in progress returns at once: create_session is not
\* called, and no session id, connection or loop state changes.
C14_ReconnectReentrancy ==
    /\ [](rc.active <= 1)
    /\ [][(last' # last /\ last'.op = "check_connection" /\ last'.recon > 0
              /\ rc.pc \in {"session", "sleep"})
             => /\ last'.ret = "at once"
                /\ cs' = cs
                /\ rc' = rc
                /\ session_ids' = session_ids
                /\ websocket' = websocket
                /\ reconnecting'
         ]_vars

C14_Witness ==
    /\ last.op = "check_connection"
    /\ last.ret = "at once"
    /\ last.flag
    /\ rc.pc = "session"
    /\ rc.active = 1
    /\ cs.pc = "network_request"

\* C15: reconnect() returns only after a session establishment succeeded, and
\* it never gives up (raises) when all that its logins failed with were
\* rate-limit, connection and timeout errors.
C15_ReconnectNeverGivesUp ==
    /\ rc.pc = "returned" => (cs.pc = "returned" /\ ~reconnecting)
    /\ rc.pc = "raised" => rc.seen \ ReconnectCaught # {}

\* C16: when reconnect() returns, every network of the login answer has the
\* session id that answer gave, every connection of the table holds the
\* controller's current session id of its network, and the table holds the
\* connections it held when reconnect() was called, with the same wire ids.
C16_SessionsPropagated ==
    (last.op = "reconnect" /\ last.ret = "returned")
        => \A n \in Networks :
              /\ n \in cs.nets => session_ids[n] = Issued(NetSession[n], cs.gen)
              /\ websocket[n].made = rc.table[n].made
              /\ websocket[n].wire_id = rc.table[n].wire_id
              /\ websocket[n].made => websocket[n].session_id = session_ids[n]

C16_Witness ==
    /\ last.op = "reconnect"
    /\ last.ret = "returned"
    /\ rc.seen = {"QoutaLimitsExceeded"}
    /\ \A n \in Networks :
          /\ rc.table[n].session_id = NetSession[n]
          /\ websocket[n].session_id = Issued(NetSession[n], "again")

Entries == {w \in WireIds : wire_map[w] # None}
Pings(sent) == SelectSeq(sent, LAMBDA s : s.kind = "ping")
PingsLeft(todo) == SelectSeq(todo, LAMBDA it : it.k = "ping")
TimerLeft(todo) == \E i \in DOMAIN todo : todo[i].k = "timer"
\* one ping for each entry of the wire-id map, on the connection of its network
OnePerEntry(pings) ==
    /\ Len(pings) = Cardinality(Entries)
    /\ \A w \in Entries :
          \E i \in DOMAIN pings : pings[i].wire = w /\ pings[i].net = wire_map[w]
\* the pass of ws_ping made by the call in progress is over
PassOver == PingsLeft(call.todo) = << >> /\ ~TimerLeft(call.todo)

FailedSends(sent) == SelectSeq(sent, LAMBDA s : ~s.ok)

\* C18: a send that fails, of a ping of the keep-alive pass or of the control
\* message itself, calls reconnect() and the calling operation does not go on
\* (and so does not return) before reconnect() returned; a send that succeeds
\* calls nothing. ws_send_message returns with one reconnect() made per failed
\* send, and the pass of ws_ping nested in a request likewise.
C18_FailedSendReconnects ==
    /\ last.op = "ws_send"
          => /\ last.recon = 1 <=> last.ret = "False"
             /\ (last.ret = "False" /\ ~last.flag)
                   => /\ reconnecting
                      /\ rc.pc = "session" /\ rc.owner = "ws_send_message"
                      /\ call.pc = "reconnect"
             /\ last.ret = "True"
                   => /\ reconnecting = last.flag
                      /\ call.pc # "reconnect"
    /\ call.pc \in {"run", "returned"}
          => /\ call.recon = Len(FailedSends(call.sent))
             /\ FailedSends(call.sent) # << >>
                   => /\ rc.pc = "returned" /\ rc.owner = "ws_send_message"
                      /\ ~reconnecting
    /\ call.pc = "reconnect"
          => /\ call.recon = Len(FailedSends(call.sent))
             /\ ~call.sent[Len(call.sent)].ok
             /\ rc.pc \in {"session", "sleep"}
    /\ last.op = "ws_ping" => last.recon = Len(FailedSends(last.sent))

C18_Witness ==
    /\ call.pc = "returned"
    /\ Len(call.sent) = 3
    /\ call.sent[1].kind = "ping" /\ call.sent[1].ok
    /\ call.sent[2].kind = "ping" /\ ~call.sent[2].ok
    /\ call.sent[3].kind = "msg" /\ ~call.sent[3].ok
    /\ call.recon = 2
    /\ rc.pc = "returned"
    /\ "QoutaLimitsExceeded" \in rc.seen

\* the change-set the collection of network n returns for the frame f
FrameChanges(n, f) ==
    LET r == IF f.method = "unitChanged" THEN ProcessUnitEvent(units[n], f)
             ELSE IF f.method = "peerChanged" THEN HandlePeerChanged(units[n], f)
             ELSE [units |-> units[n], changes |-> {}]
    IN {<<n, u>> : u \in r.changes}
DataCalls(cb) == SelectSeq(cb, LAMBDA c : c.signal = SIGNAL_DATA)
StateCalls(cb) == SelectSeq(cb, LAMBDA c : c.signal = SIGNAL_CONNECTION_STATE)

\* C19: with a callback registered, a frame received on a connection makes one
\* data call of the callback, carrying the change-set, exactly when the
\* change-set its network's collection returns for that frame is not empty, and
\* none otherwise; every state change of a connection makes one state call
\* carrying the new state of that connection.
C19_CallbackPayloads ==
    callback =>
       /\ (last.op = "ws_receive" /\ last.rx # NoFrame)
             => DataCalls(last.cb) =
                   IF FrameChanges(last.net, last.rx) # {}
                   THEN <<DataCall(FrameChanges(last.net, last.rx))>>
                   ELSE << >>
       /\ StateSignals(last.sig) # {}
             => StateCalls(last.cb) = <<StateCall(websocket[last.net].state)>>

\* with distinct wire ids that the reverse map sends back to their networks the
\* callback gets what C19 states
C19_HoldsWithDistinctWires ==
    (C1_WireIdsDistinct /\ C2_ReverseMapPointsBack) => C19_CallbackPayloads
C19_DataWitness ==
    /\ last.op = "ws_receive" /\ last.ret = "dispatched"
    /\ C1_WireIdsDistinct /\ C2_ReverseMapPointsBack
    /\ Made = Networks
    /\ last.cb = <<DataCall({<<last.net, 1>>})>>

\* C20: for every unit of a collection, the online getter returns False while the
\* connection of the unit's network is not running (there is none, or its state
\* is another one), whatever the unit's own flag, and returns the unit's flag
\* while that connection is running.
C20_OnlineNeedsRunning ==
    \A n \in Networks : \A u \in UnitIds :
        (units[n].made /\ units[n].units[u].known)
            => Online(websocket, n, units[n].units[u].online) =
                  IF websocket[n].made /\ websocket[n].state = STATE_RUNNING
                       /\ units[n].units[u].online
                  THEN "True" ELSE "False"

\* where the network has a connection in the table the getter is as C20 states
C20_HoldsWithConnection ==
    \A n \in Made : \A u \in UnitIds :
        (units[n].made /\ units[n].units[u].known)
            => Online(websocket, n, units[n].units[u].online) =
                  IF websocket[n].state = STATE_RUNNING /\ units[n].units[u].online
                  THEN "True" ELSE "False"

\* what C21 states of one assignment of v: accepted in [0, 1] with the state on
\* exactly when v > 0; refused outside with value and state as they were
ValueAssigned(v, raised, value0, state0, value1, state1) ==
    IF v >= 0 /\ v <= LevelSteps
    THEN /\ raised = None
         /\ value1 = v
         /\ state1 = UNIT_STATE_ON <=> v > 0
    ELSE /\ raised = "AiocasambiException"
         /\ value1 = value0
         /\ state1 = state0

\* the value setter of unit.py's Unit does what C21 states
C21_UnitPy ==
    [][(last' # last /\ last'.op = "value")
          => ValueAssigned(last'.arg, last'.ret, unit.value, unit.state,
                           unit'.value, unit'.state)]_vars

\* C21: assigning v to a unit's value, for the Unit class of unit.py and for the
\* Unit class of units.py alike, succeeds when 0 <= v <= 1 and then the state is
\* on iff v > 0, and raises AiocasambiException when v is outside [0, 1],
\* leaving the stored value and state as they were.
C21_ValueSetterValidates ==
    [][/\ (last' # last /\ last'.op = "value")
             => ValueAssigned(last'.arg, last'.ret, unit.value, unit.state,
                              unit'.value, unit'.state)
       /\ (last' # last /\ last'.op = "units value")
             => ValueAssigned(last'.arg, last'.ret,
                              registry.units[last'.frame].value,
                              registry.units[last'.frame].state,
                              registry'.units[last'.frame].value,
                              registry'.units[last'.frame].state)]_vars

\* value in [0, 1] and state off exactly when the value is 0
LevelInvariant(value, state) ==
    /\ value >= 0 /\ value <= LevelSteps
    /\ state = UNIT_STATE_OFF <=> value = 0

\* C22: in every state reached by construction, the value and state setters and
\* set_unit_value, every unit's dimmer value lies in [0, 1] and its state is
\* off iff its value is 0.
C22_ValueStateInvariant ==
    /\ LevelInvariant(unit.value, unit.state)
    /\ \A k \in UnitKeys :
          registry.units[k].made
             => LevelInvariant(registry.units[k].value, registry.units[k].state)

Clamp(t, lo, hi) == IF t < lo THEN lo ELSE IF t > hi THEN hi ELSE t
Multiples == {k * CCT_STEP : k \in 0 .. MaxCctSteps + 2}
Distance(a, b) == IF a >= b THEN a - b ELSE b - a
\* m is a multiple of CCT_STEP nearest to t (either one when t is in the middle)
Nearest(m, t) == m \in Multiples /\ 2 * Distance(m, t) <= CCT_STEP

\* C23: the colour temperature put in the frame of set_unit_color_temperature(t)
\* is t rounded to the nearest multiple of 50 and then limited to the
\* advertised range [cct_min, cct_max].
C23_NearestThenClamp ==
    last.op = "set_unit_color_temperature"
        => \E m \in Multiples :
              /\ Nearest(m, last.arg)
              /\ last.frame = Clamp(m, unit.cct_min, unit.cct_max)

\* what the frame carries instead: t raised to the next multiple of 50 unless it
\* is one, then limited to the range
C23_NextMultipleThenClamp ==
    last.op = "set_unit_color_temperature"
        => \E m \in Multiples :
              /\ m >= last.arg /\ m - last.arg < CCT_STEP
              /\ last.frame = Clamp(m, unit.cct_min, unit.cct_max)

\* C24: set_unit_value(v) and set_unit_distribution(d) with an argument outside
\* [0, 1] raise AiocasambiException with nothing handed to the controller: no
\* call of ws_send_message begins, so no ping and no controlUnit frame reaches a
\* connection and the keep-alive timer is not touched, and the unit's stored
\* value and distribution are as before. With an argument inside [0, 1] the
\* call of ws_send_message begins with the frame carrying the argument.
C24_InvalidNeverSent ==
    [][(last' # last /\ last'.op \in {"set_unit_value", "set_unit_distribution"})
          => IF last'.arg >= 0 /\ last'.arg <= LevelSteps
             THEN /\ last'.ret = None
                  /\ call'.pc = "run" /\ call'.start = now /\ call'.sent = << >>
                  /\ last'.frame = last'.arg
             ELSE /\ last'.ret = "AiocasambiException"
                  /\ call' = call
                  /\ websocket' = websocket
                  /\ last_websocket_ping' = last_websocket_ping
                  /\ unit' = unit]_vars

\* a ping is due, the unit is lit, and set_unit_value with 1.5 has raised
C24_Witness ==
    /\ last.op = "set_unit_value" /\ last.arg > LevelSteps
    /\ last.ret = "AiocasambiException"
    /\ PingDue(now, last_websocket_ping)
    /\ unit.value = 1 /\ unit.distribution = LevelSteps
    /\ call.pc = "returned" /\ Len(call.sent) = 1

\* C25: process_network_state given a snapshot that is not a mapping (None, a
\* number) or a mapping without a units section returns without raising and
\* without changing any unit.
C25_MalformedSnapshotIgnored ==
    [][(last' # last /\ last'.op = "process_network_state" /\ last'.changes = {})
          => /\ last'.ret = None
             /\ registry' = registry]_vars

\* the part of C25 that holds: a mapping without a units section (and any other
\* container without 'units') changes nothing and raises nothing
C25_NoUnitsSection ==
    [][(last' # last /\ last'.op = "process_network_state" /\ last'.changes = {}
          /\ last'.outcome \in {"mapping", "list"})
          => /\ last'.ret = None
             /\ registry' = registry]_vars

\* the units the collection held keep their place in it
NoneRemoved == \A k \in UnitKeys : registry.units[k].made => registry'.units[k].made

\* C26: process_network_state(snapshot) gives every unit of the collection that
\* the snapshot lists the snapshot's online flag and name, and the snapshot's
\* controls when the snapshot reports it online (its controls stay otherwise);
\* a unit the snapshot does not list keeps all its fields and no unit is removed.
C26_SnapshotApplied ==
    [][\A data \in Snapshots :
          (NetworkState(data) /\ data.has_units)
             => /\ NoneRemoved
                /\ \A k \in UnitKeys :
                      LET e == data.units[k]
                          u == registry.units[k]
                      IN /\ ~e.present => registry'.units[k] = u
                         /\ (e.present /\ u.made /\ last'.ret = None)
                               => /\ registry'.units[k].online = e.online
                                  /\ registry'.units[k].name = e.name
                                  /\ registry'.units[k].controls =
                                        IF e.online
                                        THEN ControlsSetter(NoControls, e.controls)
                                        ELSE u.controls]_vars

\* what the snapshot does apply: online flag and name, and the dimLevel as the
\* stored value of a unit reported online; the controls are never touched
C26_OnlineNameValue ==
    [][\A data \in Snapshots :
          (NetworkState(data) /\ data.has_units)
             => /\ NoneRemoved
                /\ \A k \in UnitKeys :
                      LET e == data.units[k]
                          u == registry.units[k]
                      IN /\ ~e.present => registry'.units[k] = u
                         /\ registry'.units[k].controls = u.controls
                         /\ (e.present /\ u.made /\ last'.ret = None)
                               => /\ registry'.units[k].online = e.online
                                  /\ registry'.units[k].name = e.name
                                  /\ registry'.units[k].value =
                                        IF e.online THEN e.dimLevel ELSE u.value]_vars

\* C27: processing the same unitChanged frame a second time leaves the
\* collection and every unit as they were after the first time, and the second
\* call returns a change-set with the same keys as the first.
C27_SameFrameTwice ==
    [][(last'.op = "process_unit_event" /\ last'.flag)
          => /\ registry' = registry
             /\ last'.changes = last.changes
             /\ last'.ret = last.ret]_vars

\* the same at every state the collection reaches, for every frame
C27_Idempotent ==
    \A m \in PushFrames :
        LET once == UnitsProcessUnitEvent(registry, m)
        IN UnitsProcessUnitEvent(once.reg, m) = once

\* a frame that discovered unit 2 with a dimmer level has been processed twice
C27_Witness ==
    /\ last.op = "process_unit_event" /\ last.flag
    /\ last.msg.method = "unitChanged" /\ last.msg.id = 2
    /\ last.changes = {2}
    /\ registry.units[2].made /\ registry.units[2].value = LevelSteps

\* the keys of the unit map
RegistryKeys(R) == {k \in UnitKeys : R.units[k].made}
HasDimmer(msg) == \E i \in DOMAIN msg.controls : msg.controls[i].type = "Dimmer"

\* C28: a unitChanged frame with a Dimmer control for an id the collection does
\* not hold adds exactly one unit, built from the frame's id and name, and
\* returns it in the change-set; a frame for an id the collection holds updates
\* that same unit object and the number of units does not grow; a frame without
\* an id changes nothing.
C28_Discovery ==
    [][last'.op = "process_unit_event"
          => LET m == last'.msg
                 k == m.id
             IN /\ k = 0 => registry' = registry /\ last'.changes = {}
                /\ (k # 0 /\ m.method = "unitChanged" /\ HasDimmer(m)
                       /\ k \notin RegistryKeys(registry))
                      => /\ RegistryKeys(registry') = RegistryKeys(registry) \cup {k}
                         /\ registry'.objs = registry.objs + 1
                         /\ registry'.units[k].obj = registry'.objs
                         /\ registry'.units[k].name = Strip(m.name)
                         /\ k \in last'.changes
                         /\ \A j \in UnitKeys \ {k} : registry'.units[j] = registry.units[j]
                /\ (k # 0 /\ k \in RegistryKeys(registry))
                      => /\ RegistryKeys(registry') = RegistryKeys(registry)
                         /\ registry'.objs = registry.objs
                         /\ registry'.units[k].obj = registry.units[k].obj]_vars

\* unit 2 was discovered by a frame naming it " b" and a later frame with
\* another name updated it: still two unit objects, the second one being unit 2
C28_Witness ==
    /\ last.op = "process_unit_event" /\ last.msg.id = 2 /\ last.msg.name = "a "
    /\ last.changes = {2}
    /\ registry.units[2].made /\ registry.units[2].name = "b"
    /\ registry.units[2].obj = 2 /\ registry.objs = 2

\* C29: a peerChanged frame with online = b sets the online flag of the
\* network's collection and of every unit of that network to b and returns the
\* complete unit map of the network as its change-set; the units of the other
\* networks are unchanged.
C29_PeerChanged ==
    [][(last'.op = "message_handler" /\ last'.rx.method = "peerChanged")
          => LET n == last'.to
                 b == last'.rx.online
             IN /\ units'[n].online = b
                /\ \A u \in UnitIds :
                      units'[n].units[u] = [units[n].units[u] EXCEPT !.online = b]
                /\ last'.peers = {<<n, u>> : u \in UnitIds}
                /\ \A m \in Networks \ {n} : units'[m] = units[m]]_vars

\* network A went offline with both its units after one of them had reported a
\* level, while network B, whose unit 1 had gone offline alone, kept its flags
C29_Witness ==
    /\ last.op = "message_handler" /\ last.rx = PeerChanged(FALSE) /\ last.to = "A"
    /\ ~units["A"].online
    /\ \A u \in UnitIds : ~units["A"].units[u].online
    /\ units["A"].units[1].value = 100
    /\ units["B"].online /\ ~units["B"].units[1].online /\ units["B"].units[2].online

\* C30: request() raises, for each of the statuses 400, 401, 403, 404, 405, 410,
\* 416, 429 and 500, the one error kind mapped to it, each kind distinct; for an
\* error status outside the table it raises AiocasambiException; for a success
\* status it raises nothing; it makes one HTTP request per call.
C30_RequestErrors ==
    /\ \A a, b \in ERROR_CODES : a # b => ERRORS(a) # ERRORS(b)
    /\ (last.op = "request" /\ last.arg # 0)
          => /\ last.frame = 1
             /\ last.arg \in ERROR_CODES => last.ret = ERRORS(last.arg)
             /\ (last.arg >= 400 /\ last.arg \notin ERROR_CODES)
                   => last.ret = "AiocasambiException"
             /\ last.arg < 400 => last.ret = None

\* what request() does: the statuses of the table raise their kind, every other
\* status, error statuses included, returns the response
C30_OnlyTableRaises ==
    /\ \A a, b \in ERROR_CODES : a # b => ERRORS(a) # ERRORS(b)
    /\ (last.op = "request" /\ last.arg # 0)
          => /\ last.frame = 1
             /\ last.arg \in ERROR_CODES => last.ret = ERRORS(last.arg)
             /\ last.arg \notin ERROR_CODES
                   => last.ret = None /\ last.outcome \in {"json", "response"}

\* C31: an operation called while no network id is known, or for a network
\* without a session-id entry, raises at once: initialize(),
\* get_network_information(), get_network_state() and get_unit_state() send no
\* request, set no session header and go through no pass of a retry loop.
C31_NoSessionFailsAtOnce ==
    /\ (network_ids = {} /\ ini.pc # "idle")
          => /\ ini.pc = "raised" /\ ini.error = "AiocasambiException"
             /\ ini.at = None /\ ini.session = None
             /\ ini.i = 0 /\ ini.j = 0
    /\ (gus.pc # "idle" /\ session_ids[gus.net] = None)
          => /\ gus.pc = "raised" /\ gus.requests = 0
             /\ gus.error \in {"AiocasambiException", "KeyError"}
    /\ network_ids = {} => header_session = None

\* without any session get_network_state() and get_unit_state() have both raised
C31_Witness ==
    /\ network_ids = {}
    /\ ini.pc = "raised" /\ ini.op = "get_network_state"
    /\ gus.pc = "raised" /\ gus.error = "AiocasambiException"

\* with a session for A only, get_unit_state for B has raised
C31_NoEntryWitness ==
    /\ network_ids = {"A"}
    /\ gus.pc = "raised" /\ gus.net = "B" /\ gus.error = "KeyError"

\* C32: init_unit_state_controls fetches the controls of every unit of the
\* collection: when it returns, every unit has been asked, also after a unit
\* that answered with an empty list or timed out on every retry.
C32_EveryUnitFetched ==
    iuc.pc = "returned" => iuc.requests = {u \in UnitIds : units[iuc.net].units[u].known}

\* what the loop does: it returns at the first unit without data, and only the
\* units before it were given controls
C32_StopsAtFirstWithoutData ==
    iuc.pc = "returned"
        => \/ iuc.done = iuc.requests /\ iuc.todo = << >>
           \/ iuc.done = iuc.requests \ {iuc.at}

\* the retry loop of one unit is bounded
C32_BoundedRetries == iuc.i <= MAX_RETRIES

\* C33: every REST request made for a network carries that network's session
\* id in the X-Casambi-Session header, also when get_network_state and
\* get_unit_state for different networks interleave at their awaits.
C33_RequestCarriesOwnSession ==
    /\ ini.pc \in {"info_wait", "state_wait"} => ini.session = session_ids[ini.at]
    /\ gus.pc = "wait" => gus.session = session_ids[gus.net]

\* a request made right after set_session_id, with no await in between, does
\* carry the session id of its network: the first GET of each network and the
\* GET of get_unit_state
C33_FirstRequestCarriesOwnSession ==
    /\ (ini.pc \in {"info_wait", "state_wait"} /\ ini.j = 0)
          => ini.session = session_ids[ini.at]
    /\ gus.pc = "wait" => gus.session = session_ids[gus.net]

\* C34: while no reconnect() call is in progress _reconnecting is false, also
\* after create_session() inside reconnect() raised an error reconnect() does
\* not catch (Unauthorized, or AiocasambiException after the timeouts).
C34_FlagClearedWhenIdle ==
    rc.pc \notin {"session", "sleep"} => ~reconnecting

\* the flag is clear after every reconnect() that returned
C34_FlagClearedOnReturn ==
    rc.pc \in {"idle", "returned"} => ~reconnecting

\* C35: a realtime connection has at most one connection-loop task alive at any
\* time, also after start() was called again while the state was starting, or
\* disconnected with the first loop asleep before its retry.
C35_OneLoopPerConnection ==
    \A n \in Networks : Cardinality(Alive(n)) <= 1

\* start() on a connection that is running schedules nothing
C35_RunningStartsNoLoop ==
    (last.op = "start" /\ last.was = STATE_RUNNING) => ~last.spawned

\* the loop of the connection is alive and the connection is disconnected
Retrying(n) == websocket[n].state = STATE_DISCONNECTED /\ Alive(n) # {}

\* C36: after a caught transport failure left a connection disconnected, its
\* own loop retries after the sleep without any start(): when the transport
\* accepts connections again the state becomes running again, unless an
\* unexpected exception ended the loop meanwhile; the open handshake of the
\* retry carries the session id the connection object holds at that moment;
\* after the unexpected exception, which is raised on, nothing retries.
C36_LoopRetries ==
    /\ \A n \in Networks :
          Retrying(n) ~> (websocket[n].state = STATE_RUNNING \/ Alive(n) = {})
    /\ []((last.op = "ws_open" /\ last.outcome = "ok")
             => last.open_session = websocket[last.net].session_id)
    /\ [][\A n \in Networks :
             Alive(n) = {} => (Alive(n)' = {} /\ websocket'[n].state = websocket[n].state)
         ]_vars

\* a loop that had been disconnected has sent its open handshake with the
\* session id reconnect() wrote into the connection
C36_Witness ==
    /\ last.op = "ws_open" /\ last.outcome = "ok" /\ last.net = "A"
    /\ last.open_session = Issued(NetSession["A"], "again")
    /\ websocket["A"].state = STATE_RUNNING
    /\ rc.pc = "returned"

\* the loop of A was ended by an unexpected exception: A stays disconnected
C36_EndedWitness ==
    /\ Alive("A") = {} /\ websocket["A"].state = STATE_DISCONNECTED
    /\ last.op = "ws_connect" /\ last.net = "B" /\ websocket["B"].state = STATE_RUNNING

\* C37: the chain request() -> ws_ping() -> reconnect() -> create_session() ->
\* request() -> ws_ping() -> reconnect() ends: with the ping interval over and
\* every ping failing, the reconnect() of the inner pass returns at the flag,
\* no second reconnect loop is entered, one pass calls reconnect() once per
\* entry of the wire-id map at most, and the outer request() is over once a
\* session establishment succeeds.
C37_ChainTerminates ==
    /\ (call.pc \in {"run", "reconnect"}) ~> (call.pc \in {"returned", "raised"})
    /\ [](rc.active <= 1)
    /\ [](call.recon <= Cardinality(Entries))
    /\ []((last.op = "ws_ping" /\ last.recon > 0) => (last.flag /\ rc.pc = "session"))

\* the outer request() is over after both of its pings failed and each called
\* a reconnect() that renewed the sessions, the pass of the login request
\* inside having sent its own failing pings
C37_Witness ==
    /\ call.pc = "returned" /\ call.due /\ call.recon = 2
    /\ last.op = "request" /\ last.ret = None
    /\ rc.pc = "returned" /\ ~reconnecting

\* the pass of ws_ping inside a login request of reconnect() has sent pings
\* that failed
C37_NestedWitness ==
    /\ last.op = "ws_ping" /\ last.recon = 2 /\ last.flag
    /\ call.pc = "reconnect" /\ rc.pc = "session"

\* the wire ids the reverse map sends to network n
WiresOf(n) == {w \in WireIds : wire_map[w] = n}

\* C38: after any sequence of start_websocket calls, a second one for a network
\* with a connection included, each network has at most one wire id in the
\* reverse map and at most one connection object whose loop is alive.
C38_OneConnectionPerNetwork ==
    \A n \in Networks : Cardinality(WiresOf(n)) <= 1 /\ Cardinality(Alive(n)) <= 1

\* the table itself holds one connection per network, started, whose wire id is
\* the one handed to the units of the network
C38_OneTableEntry ==
    \A n \in Networks :
        websocket[n].made
            => (websocket[n].state = STATE_STARTING /\ websocket[n].wire_id = wires[n])

\* C39: the external callback is called only when one was supplied: with
\* callback = None neither the inbound signal handler nor the poll notification
\* of get_network_state attempts to call it (the attempt on None is the
\* TypeError of get_network_state).
C39_CallbackOnlyWhenSupplied ==
    ~callback => (last.cb = << >> /\ ini.error # "TypeError")

\* C40: setter and getter of a unit agree: right after the value setter accepts
\* v, reading unit.value returns v, and right after the distribution setter
\* accepts d, reading unit.distribution returns d, whatever the controls hold.
C40_SetterGetterAgree ==
    /\ (last.op = "value" /\ last.ret = None) => UnitValueGetter(unit) = last.arg
    /\ (last.op = "distribution" /\ last.ret = None)
           => UnitDistributionGetter(unit) = last.arg

\* what the setters accept is stored in the attributes _value and _distribution,
\* which the getters do not read
C40_SetterStores ==
    /\ (last.op = "value" /\ last.ret = None) => unit.value = last.arg
    /\ (last.op = "distribution" /\ last.ret = None) => unit.distribution = last.arg

\* the getters return what the controls mapping holds, before and after a setter
C40_GetterReadsControls ==
    [][/\ UnitValueGetter(unit') = UnitValueGetter(unit)
       /\ UnitDistributionGetter(unit') = UnitDistributionGetter(unit)]_vars

====
